---- MODULE Spec2Model ----
(***************************************************************************)
(* Verification model of the image-to-SVG conversion pipeline of           *)
(* src/js/services/ImageConverter.js.                                      *)
(*                                                                         *)
(* Contour tracer (findContours / traceContour): a state machine, one step *)
(* per scanned pixel and one step per do-while iteration of the Moore      *)
(* walk.  findContours reads only the red channel of the pixel buffer      *)
(* (data[(y*width+x)*4]); the variable `data` holds that channel, indexed  *)
(* by y*width+x.                                                           *)
(*                                                                         *)
(* Contour post-processing (processContours, simplifyContour,              *)
(* pointLineDistance, smoothContour): operators computed as the code       *)
(* computes them, the distances in double arithmetic.                      *)
(*                                                                         *)
(* Pixel stages (toGrayscale, applyBlur, posterize, detectEdges,           *)
(* invertImage, threshold): operators on the byte array, with the double   *)
(* arithmetic of the code and the rounding of Uint8ClampedArray stores.    *)
(*                                                                         *)
(* processImage: calls on one converter, each awaiting the decoding of its *)
(* file and then running the stages in order on a working buffer held by   *)
(* reference, with a cloned snapshot pushed after each buffer stage.       *)
(*                                                                         *)
(* ImageConverterUI (src/js/components/ImageConverterUI.js): the fields    *)
(* currentImage and currentResult, the handlers loadImage, processImage,   *)
(* reset and onSettingsChange with its timer, on top of the converter.     *)
(*                                                                         *)
(* EventEmitter (src/js/core/EventEmitter.js) and Store.setState: the      *)
(* listener Sets, emit and setState run one callback or key a step.        *)
(***************************************************************************)
EXTENDS Integers, Sequences, FiniteSets, TLC

VARIABLES
    width, height, data,      \* imageData handed to findContours
    visited, contours,        \* findContours locals
    sx, sy,                   \* loop variables x, y of the seed scan
    pc,                       \* position of the run
    startX, startY,           \* traceContour arguments
    tx, ty, dir, firstPoint, iter, contour,   \* traceContour locals
    seeds,                    \* history: seeds handed to traceContour, in order
    walks,                    \* history: every walk returned by traceContour
    settings,                 \* this.settings, the keys processContours reads
    regions,                  \* outcome of processContours
    pts,                      \* a contour handed to simplifyContour / smoothContour
    tolIdx, simplifiedAt,       \* tolerances applied so far and their outputs
    factorTenths, smoothResult,       \* smoothing factor (tenths) and outcome of smoothContour
    svg,                      \* the document returned by generateSVG
    heap,                     \* the ImageData objects allocated so far, by reference
    imageData,                \* processImage local: reference of the working buffer
    steps, after,             \* per run: the steps list; history: the working buffer after each stage
    reads, calls,             \* history per run: settings keys read, stage methods invoked
    phase, current,           \* per run: where it stands; the run executing synchronous code
    files, established,       \* per run: the image file and what it decodes to; this.settings after the merge
    supplied,                 \* history per run: the settings argument of the call
    result,                   \* per run: what the promise of processImage settled with
    currentImage, currentResult,  \* ImageConverterUI fields: << >> is null, <<v>> a value
    awaiting,                 \* runs whose 'await this.converter.processImage' in the UI has not resumed
    timers, settingsTimeout,  \* the pending setTimeout tasks; ImageConverterUI.settingsTimeout (0: undefined)
    now,                      \* the clock, in units of 100 ms
    changes, fired,           \* history: times of the change events; the runs of the timer callback
    _events, _state,          \* EventEmitter._events: event -> callbacks in insertion order; Store._state
    listeners,                \* every callback ever registered, by identity
    stack,                    \* the calls of emit and setState in progress, innermost last
    log, setCalls             \* history: callback invocations; the setState calls and what they emitted

traceVars == <<width, height, data, visited, contours, sx, sy, pc,
               startX, startY, tx, ty, dir, firstPoint, iter, contour,
               seeds, walks>>
postVars == <<settings, regions>>
contourVars == <<pts, tolIdx, simplifiedAt, factorTenths, smoothResult>>
emitVars == <<svg>>
pipeVars == <<heap, imageData, steps, after, reads, calls, phase, current,
              files, established, supplied, result>>

uiVars == <<currentImage, currentResult, awaiting, timers, settingsTimeout, now, changes, fired>>
busVars == <<_events, _state, listeners, stack, log, setCalls>>
appVars == <<uiVars, busVars>>

vars == <<traceVars, postVars, contourVars, emitVars, pipeVars, appVars>>

----------------------------------------------------------------------------
(* Bounds of the model *)

\* largest image of the exhaustive tracer runs
MaxW == 4
MaxH == 4

\* contours handed to simplifyContour and smoothContour: up to MaxLen points
\* with x in 0..MaxX and y in 0..MaxY
MaxX == 2
MaxY == 1
MaxLen == 4

\* longest collinear contour: points k * u for k in 0..MaxSpan
MaxSpan == 22

\* largest smoothing factor, in tenths (the settings range is 0-2)
MaxFactor10 == 20

\* contour lists handed to processContours: up to MaxRegions contours, each a
\* rectangle or a right triangle of sides 1..MaxSideW by 1..MaxSideH, with
\* minRegionArea in 1..MaxMinArea
MaxRegions == 3
MaxSideW == 3
MaxSideH == 2
MaxMinArea == 2

\* largest image of the runs from findContours to generateSVG
MaxEmitW == 4
MaxEmitH == 3

\* processImage calls on one converter
MaxRuns == 2

\* calls of one pixel stage in a row on one buffer
MaxApplications == 2
MaxChanges == 3
MaxTime == 6
MaxListeners == 2
MaxLog == 4
MaxDepth == 4
----------------------------------------------------------------------------
(* JavaScript Number arithmetic.                                           *)
(*                                                                         *)
(* pointLineDistance computes with IEEE 754 binary64 values: every         *)
(* operation is the exact result rounded to 53 significant bits, nearest,  *)
(* ties to even.  A value is [s, m, e] standing for s * m * 2^e with m a   *)
(* natural number of exactly MantBits bits (or zero), kept as a sequence   *)
(* of limbs in base 2^LimbBits, least significant limb first, because the  *)
(* mantissas and their products do not fit the integers of the checker.    *)
(* Infinities, NaN and subnormals do not occur on pixel coordinates.       *)

MantBits == 53
LimbBits == 15
LimbBase == 2 ^ LimbBits

RECURSIVE BNorm(_)
BNorm(a) ==
    IF a = << >> THEN a
    ELSE IF a[Len(a)] = 0 THEN BNorm(SubSeq(a, 1, Len(a) - 1)) ELSE a

BFromInt(n) ==
    IF n = 0 THEN << >>
    ELSE IF n < LimbBase THEN <<n>>
    ELSE IF n < LimbBase * LimbBase THEN <<n % LimbBase, n \div LimbBase>>
    ELSE <<n % LimbBase, (n \div LimbBase) % LimbBase, n \div (LimbBase * LimbBase)>>

\* the integer of the two lowest limbs of a
BToInt(a) ==
    IF a = << >> THEN 0
    ELSE IF Len(a) = 1 THEN a[1]
    ELSE a[1] + LimbBase * a[2]

BRest(a) == IF a = << >> THEN a ELSE Tail(a)
BLow(a) == IF a = << >> THEN 0 ELSE a[1]

RECURSIVE BAddC(_, _, _)
BAddC(a, b, c) ==
    IF a = << >> /\ b = << >>
    THEN IF c = 0 THEN << >> ELSE <<c>>
    ELSE LET x == BLow(a) + BLow(b) + c
         IN  <<x % LimbBase>> \o BAddC(BRest(a), BRest(b), x \div LimbBase)

BAdd(a, b) == BAddC(a, b, 0)

\* a - b for a >= b
RECURSIVE BSubC(_, _, _)
BSubC(a, b, c) ==
    IF a = << >> THEN << >>
    ELSE LET x == a[1] - BLow(b) - c
         IN  <<IF x < 0 THEN x + LimbBase ELSE x>>
                 \o BSubC(Tail(a), BRest(b), IF x < 0 THEN 1 ELSE 0)

BSub(a, b) == BNorm(BSubC(a, b, 0))

RECURSIVE BCmpFrom(_, _, _)
BCmpFrom(a, b, i) ==
    IF i = 0 THEN 0
    ELSE IF a[i] > b[i] THEN 1
    ELSE IF a[i] < b[i] THEN -1
    ELSE BCmpFrom(a, b, i - 1)

BCmp(a, b) ==
    IF Len(a) > Len(b) THEN 1
    ELSE IF Len(a) < Len(b) THEN -1
    ELSE BCmpFrom(a, b, Len(a))

\* a * k for 0 <= k < LimbBase
RECURSIVE BMulSmallC(_, _, _)
BMulSmallC(a, k, c) ==
    IF a = << >>
    THEN IF c = 0 THEN << >> ELSE <<c>>
    ELSE LET x == a[1] * k + c
         IN  <<x % LimbBase>> \o BMulSmallC(Tail(a), k, x \div LimbBase)

BMulSmall(a, k) == IF k = 0 THEN << >> ELSE BMulSmallC(a, k, 0)

BShiftLimbs(a, n) == IF a = << >> THEN a ELSE [i \in 1..n |-> 0] \o a

RECURSIVE BMul(_, _)
BMul(a, b) ==
    IF a = << >> \/ b = << >> THEN << >>
    ELSE BAdd(BMulSmall(a, b[1]), BShiftLimbs(BMul(a, Tail(b)), 1))

\* quotient and remainder of a by d, 0 < d < LimbBase: long division from
\* limb i downwards, r the running remainder, q the quotient limbs so far
RECURSIVE BDivSmallFrom(_, _, _, _, _)
BDivSmallFrom(a, d, i, r, q) ==
    IF i = 0 THEN [q |-> BNorm(q), r |-> r]
    ELSE BDivSmallFrom(a, d, i - 1, (r * LimbBase + a[i]) % d,
                       <<(r * LimbBase + a[i]) \div d>> \o q)

BDivSmall(a, d) == BDivSmallFrom(a, d, Len(a), 0, << >>)

BShl(a, k) == BShiftLimbs(BMulSmall(a, 2 ^ (k % LimbBits)), k \div LimbBits)

\* floor(a / 2^k) and whether a nonzero bit was shifted out
BShrOf(d, a, cut) ==
    [q |-> d.q, sticky |-> d.r # 0 \/ \E i \in 1..cut : a[i] # 0]

BShr(a, k) ==
    LET cut == IF k \div LimbBits > Len(a) THEN Len(a) ELSE k \div LimbBits
    IN  BShrOf(BDivSmall(SubSeq(a, cut + 1, Len(a)), 2 ^ (k % LimbBits)), a, cut)

BBitLen(a) ==
    IF a = << >> THEN 0
    ELSE LimbBits * (Len(a) - 1)
           + (CHOOSE k \in 1..LimbBits : 2 ^ (k - 1) <= a[Len(a)] /\ a[Len(a)] < 2 ^ k)

BIsOdd(a) == a # << >> /\ a[1] % 2 = 1

\* the integer made of the n <= 30 bits of a from bit lo upwards
BBits(a, lo, n) == BToInt(BShr(a, lo).q) % (2 ^ n)

\* floor(sqrt(n)) for 0 <= n < 2^28, bit k of the root downwards
RECURSIVE NatSqrtFrom(_, _, _)
NatSqrtFrom(n, r, k) ==
    IF k < 0 THEN r
    ELSE IF (r + 2 ^ k) * (r + 2 ^ k) <= n
         THEN NatSqrtFrom(n, r + 2 ^ k, k - 1)
         ELSE NatSqrtFrom(n, r, k - 1)

\* quotient and remainder of rem * 2^(k+1) + (the low k+1 bits of a) by d,
\* for rem < d < 2^29 and k odd, two bits at a time; st holds the quotient
\* so far, the running remainder and the index k of the next bit
NatDivNext(st, r2, d) == [q |-> 4 * st.q + (r2 \div d), r |-> r2 % d, k |-> st.k - 2]

RECURSIVE NatDivFrom(_, _, _)
NatDivFrom(st, a, d) ==
    IF st.k < 0 THEN st
    ELSE NatDivFrom(NatDivNext(st, 4 * st.r + ((a \div (2 ^ (st.k - 1))) % 4), d), a, d)

NatDivBits(rem, q, a, k, d) == NatDivFrom([q |-> q, r |-> rem, k |-> k], a, d)

\* root and remainder of hi * 2^(2*h) + a1 * 2^h + a0 (a1, a0 < 2^h, h = 14
\* or 28), given root s1 and remainder r1 of hi: one step of the recursive
\* square root (divide r1 * 2^h + a1 by twice the root, then correct by one
\* when the square of the quotient does not fit)
SqrtPick(X, Q2, s) ==
    IF BCmp(X, Q2) >= 0
    THEN [root |-> s, rem |-> BSub(X, Q2)]
    ELSE [root |-> BSub(s, <<1>>),
          rem |-> BSub(BAdd(X, BSub(BMulSmall(s, 2), <<1>>)), Q2)]

SqrtFix(dv, s1, a0, h) ==
    SqrtPick(BAdd(BShl(BFromInt(dv.r), h), BFromInt(a0)),
             BMul(BFromInt(dv.q), BFromInt(dv.q)),
             BAdd(BShl(BFromInt(s1), h), BFromInt(dv.q)))

\* r1 <= 2 * s1, so the quotient of r1 by 2 * s1 is 0 or 1
SqrtStep(s1, r1, a1, a0, h) ==
    IF r1 < 2 * s1
    THEN SqrtFix(NatDivBits(r1, 0, a1, h - 1, 2 * s1), s1, a0, h)
    ELSE SqrtFix(NatDivBits(r1 - 2 * s1, 1, a1, h - 1, 2 * s1), s1, a0, h)

\* integer square root of n, 2^110 <= n < 2^112: root and remainder, from
\* the root of the top 28 bits, then of the top 56 bits, then of n
SqrtTopFrom(s0, a3, a2) ==
    SqrtStep(s0, a3 - s0 * s0, a2 \div (2 ^ 14), a2 % (2 ^ 14), 14)

SqrtTop(a3, a2) == SqrtTopFrom(NatSqrtFrom(a3, 0, 13), a3, a2)

SqrtLow(top, n) ==
    SqrtStep(BToInt(top.root), BToInt(top.rem), BBits(n, 28, 28), BBits(n, 0, 28), 28)

BISqrt(n) == SqrtLow(SqrtTop(BBits(n, 84, 28), BBits(n, 56, 28)), n)

FZero == [s |-> 1, m |-> << >>, e |-> 0]

\* s * q2 * 2^e, q2 of MantBits or MantBits + 1 bits (a carry of the rounding)
FRoundCarry(s, q2, e) ==
    IF BBitLen(q2) > MantBits
    THEN [s |-> s, m |-> BDivSmall(q2, 2).q, e |-> e + 1]
    ELSE [s |-> s, m |-> q2, e |-> e]

\* round q up when the bit below it (guard) is set and either more bits follow
\* (rest) or q is odd: nearest, ties to even
FRoundTie(s, q, guard, rest, e) ==
    FRoundCarry(s, IF guard /\ (rest \/ BIsOdd(q)) THEN BAdd(q, <<1>>) ELSE q, e)

\* h holds MantBits + 1 bits: the kept ones and the guard bit
FRoundCut(s, h, e, sticky) ==
    FRoundTie(s, BDivSmall(h.q, 2).q, BIsOdd(h.q), h.sticky \/ sticky, e)

FRoundBits(s, N, e, sticky, L) ==
    IF L <= MantBits
    THEN [s |-> s, m |-> BShl(N, MantBits - L), e |-> e - (MantBits - L)]
    ELSE FRoundCut(s, BShr(N, L - MantBits - 1), e + (L - MantBits), sticky)

\* s * N * 2^e (plus a nonzero amount below the last bit of N when sticky)
\* rounded to the nearest double, ties to even
FRound(s, N, e, sticky) ==
    IF N = << >> THEN FZero ELSE FRoundBits(s, N, e, sticky, BBitLen(N))

\* the double of an integer n, |n| < 2^31
FFromInt(n) ==
    IF n = 0 THEN FZero
    ELSE FRound(IF n < 0 THEN -1 ELSE 1, BFromInt(IF n < 0 THEN -n ELSE n), 0, FALSE)

FIsZero(a) == a.m = << >>

FNeg(a) == IF FIsZero(a) THEN a ELSE [a EXCEPT !.s = -a.s]

FMul(a, b) ==
    IF FIsZero(a) \/ FIsZero(b) THEN FZero
    ELSE FRound(a.s * b.s, BMul(a.m, b.m), a.e + b.e, FALSE)

\* sa * Na * 2^e + sb * Nb * 2^e
FAddAligned(sa, Na, sb, Nb, e) ==
    IF sa = sb THEN FRound(sa, BAdd(Na, Nb), e, FALSE)
    ELSE IF BCmp(Na, Nb) = 0 THEN FZero
    ELSE IF BCmp(Na, Nb) > 0 THEN FRound(sa, BSub(Na, Nb), e, FALSE)
    ELSE FRound(sb, BSub(Nb, Na), e, FALSE)

FAdd(a, b) ==
    IF FIsZero(a) THEN b
    ELSE IF FIsZero(b) THEN a
    ELSE LET e == IF a.e < b.e THEN a.e ELSE b.e
         IN  FAddAligned(a.s, BShl(a.m, a.e - e), b.s, BShl(b.m, b.e - e), e)

FSub(a, b) == FAdd(a, FNeg(b))

\* n / d for integers n and 0 < d < LimbBase
FDivRound(a, dv) == FRound(a.s, dv.q, a.e - (LimbBits + 3), dv.r # 0)

FDivMant(a, d) == FDivRound(a, BDivSmall(BShl(a.m, LimbBits + 3), d))

FDivInts(n, d) == IF n = 0 THEN FZero ELSE FDivMant(FFromInt(n), d)

\* Math.sqrt(a) for a >= 0
FSqrtRound(r, e) == FRound(1, r.root, e, r.rem # << >>)

FSqrt(a) ==
    IF FIsZero(a) THEN FZero
    ELSE LET k == IF (a.e - (MantBits + 5)) % 2 = 0 THEN MantBits + 5 ELSE MantBits + 6
         IN  FSqrtRound(BISqrt(BShl(a.m, k)), (a.e - k) \div 2)

\* x ** 2, taken as the correctly rounded product x * x
FSquare(x) == FMul(x, x)

FSign(a) == IF FIsZero(a) THEN 0 ELSE a.s

\* -1, 0 or 1 as a < b, a = b or a > b
FCmp(a, b) ==
    IF FSign(a) # FSign(b) THEN (IF FSign(a) > FSign(b) THEN 1 ELSE -1)
    ELSE IF FSign(a) = 0 THEN 0
    ELSE LET mag == IF a.e > b.e THEN 1
                    ELSE IF a.e < b.e THEN -1
                    ELSE BCmp(a.m, b.m)
         IN  a.s * mag

FGt(a, b) == FCmp(a, b) = 1

\* Math.max(0, Math.min(1, t))
FClamp01(t) ==
    IF FGt(t, FFromInt(1)) THEN FFromInt(1)
    ELSE IF FGt(FZero, t) THEN FZero
    ELSE t


\* long division by a divisor b of several limbs whose top limb is at least
\* LimbBase / 2, for r < b: the next quotient limb is estimated from the top
\* limbs (never too small, at most 2 too large) and corrected downwards
limbAt(a, i) == IF i <= Len(a) THEN a[i] ELSE 0

BDivEstimate(r1, b) ==
    IF (limbAt(r1, Len(b) + 1) * LimbBase + limbAt(r1, Len(b))) \div b[Len(b)] >= LimbBase
    THEN LimbBase - 1
    ELSE (limbAt(r1, Len(b) + 1) * LimbBase + limbAt(r1, Len(b))) \div b[Len(b)]

RECURSIVE BDivCorrect(_, _, _)
BDivCorrect(r1, b, d) ==
    IF BCmp(BMulSmall(b, d), r1) > 0
    THEN BDivCorrect(r1, b, d - 1)
    ELSE [d |-> d, r |-> BSub(r1, BMulSmall(b, d))]

\* quotient limb and remainder of r * LimbBase by b
BDivDigitOf(r1, b) == BDivCorrect(r1, b, BDivEstimate(r1, b))
BDivDigit(r, b) == BDivDigitOf(BShiftLimbs(r, 1), b)

\* floor(r * LimbBase^n / b) and the remainder, for r < b
RECURSIVE BDivLimbs(_, _, _, _)
BDivLimbsWith(step, b, n, q) == BDivLimbs(step.r, b, n - 1, <<step.d>> \o q)

BDivLimbs(r, b, n, q) ==
    IF n = 0 THEN [q |-> BNorm(q), r |-> r]
    ELSE BDivLimbsWith(BDivDigit(r, b), b, n, q)

\* a / b for b # 0: the mantissas, of MantBits bits, divided to
\* 4 * LimbBits - 1 fraction bits; 2 * b.m is shifted to fill its 4 limbs
DivShift == 4 * LimbBits - (MantBits + 1)

FDivOf(a, b, d) == FRound(a.s * b.s, d.q, a.e - b.e - (4 * LimbBits - 1), d.r # << >>)

FDiv(a, b) ==
    IF FIsZero(a) THEN FZero
    ELSE FDivOf(a, b, BDivLimbs(BShl(a.m, DivShift), BShl(b.m, DivShift + 1), 4, << >>))

\* floor(2 * a) for a double 0 <= a < 2^29, and whether 2 * a is above it
FHalves(a) ==
    IF FIsZero(a) THEN [q |-> << >>, sticky |-> FALSE]
    ELSE IF a.e >= -1 THEN [q |-> BShl(a.m, a.e + 1), sticky |-> FALSE]
    ELSE BShr(a.m, -a.e - 1)

\* Math.round(a) for a >= 0: halves go up
MathRound(a) == (BToInt(FHalves(a).q) + 1) \div 2
----------------------------------------------------------------------------
(* findContours *)

Pt(x, y) == [x |-> x, y |-> y]

getPixel_nonzero(x, y) ==
    IF x < 0 \/ x >= width \/ y < 0 \/ y >= height
    THEN 0
    ELSE IF data[y * width + x] > 0 THEN 255 ELSE 0

\* const getPixel = (x, y) => ...
getPixel(x, y) ==
    IF x < 0 \/ x >= width \/ y < 0 \/ y >= height
    THEN 0
    ELSE data[y * width + x]

\* const directions = [N, NE, E, SE, S, SW, W, NW]
directions ==
    << <<0, -1>>, <<1, -1>>, <<1, 0>>, <<1, 1>>,
       <<0, 1>>, <<-1, 1>>, <<-1, 0>>, <<-1, -1>> >>

\* newDir of the neighbour search, i in 0..7 (directions is 1-based here)
newDirOf(d, i) == (d + i + 5) % 8

neighbourX(x, d) == x + directions[d + 1][1]
neighbourY(y, d) == y + directions[d + 1][2]

\* the values of i for which the neighbour is white
whiteSteps(x, y, d) ==
    {i \in 0..7 :
        getPixel(neighbourX(x, newDirOf(d, i)), neighbourY(y, newDirOf(d, i))) > 127}

\* first i of the for loop that hits a white neighbour
firstWhite(x, y, d) ==
    CHOOSE i \in whiteSteps(x, y, d) : \A j \in whiteSteps(x, y, d) : i <= j

\* const maxIter = width * height
maxIter == width * height

loopAgain_offByOne(it) == it <= maxIter

\* } while (iter < maxIter)
loopAgain(it) == it < maxIter

keepContour_min3(c) == Len(c) >= 3

keepContour_nonEmpty(c) == Len(c) >= 1

\* if (contour.length >= 10)
keepContour(c) == Len(c) >= 10

hasBlackNeighbor(x, y) ==
    \/ getPixel(x - 1, y) <= 127
    \/ getPixel(x + 1, y) <= 127
    \/ getPixel(x, y - 1) <= 127
    \/ getPixel(x, y + 1) <= 127

\* for (let y = 1; ...) for (let x = 1; ...)
scanFirst == 1
inRows == sy < height - 1
inCols == sx < width - 1

traceLocals == <<startX, startY, tx, ty, dir, firstPoint, iter, contour>>
imageVars == <<width, height, data>>
nonTraceVars == <<postVars, contourVars, emitVars, pipeVars, appVars>>

\* x reached width-1: next row
ScanNextRow ==
    /\ pc = "scan" /\ inRows /\ ~inCols
    /\ sy' = sy + 1
    /\ sx' = scanFirst
    /\ UNCHANGED <<imageVars, visited, contours, pc, traceLocals, seeds, walks, nonTraceVars>>

\* pixel visited, black, or without a black 4-neighbour: continue
ScanSkip ==
    /\ pc = "scan" /\ inRows /\ inCols
    /\ \/ visited[sy * width + sx] = 1
       \/ ~(getPixel(sx, sy) > 127)
       \/ ~hasBlackNeighbor(sx, sy)
    /\ sx' = sx + 1
    /\ UNCHANGED <<imageVars, visited, contours, sy, pc, traceLocals, seeds, walks, nonTraceVars>>

\* const contour = traceContour(x, y): entry of the walk
ScanSeed ==
    /\ pc = "scan" /\ inRows /\ inCols
    /\ visited[sy * width + sx] = 0
    /\ getPixel(sx, sy) > 127
    /\ hasBlackNeighbor(sx, sy)
    /\ startX' = sx /\ startY' = sy
    /\ tx' = sx /\ ty' = sy
    /\ dir' = 7
    /\ firstPoint' = TRUE
    /\ iter' = 0
    /\ contour' = << >>
    /\ seeds' = Append(seeds, Pt(sx, sy))
    /\ pc' = "trace"
    /\ UNCHANGED <<imageVars, visited, contours, sx, sy, walks, nonTraceVars>>

\* one iteration of the do-while loop of traceContour
TraceStep ==
    /\ pc = "trace"
    /\ contour' = Append(contour, Pt(tx, ty))
    /\ visited' = [visited EXCEPT ![ty * width + tx] = 1]
    /\ IF whiteSteps(tx, ty, dir) = {}
       THEN \* if (!found) break
            /\ pc' = "traced"
            /\ UNCHANGED <<tx, ty, dir, iter, firstPoint>>
       ELSE LET nd == newDirOf(dir, firstWhite(tx, ty, dir))
                nx == neighbourX(tx, nd)
                ny == neighbourY(ty, nd)
            IN  /\ tx' = nx /\ ty' = ny /\ dir' = nd
                /\ iter' = iter + 1
                /\ IF ~firstPoint /\ nx = startX /\ ny = startY
                   THEN /\ pc' = "traced"
                        /\ UNCHANGED firstPoint
                   ELSE /\ firstPoint' = FALSE
                        /\ pc' = IF loopAgain(iter + 1) THEN "trace" ELSE "traced"
    /\ UNCHANGED <<imageVars, contours, sx, sy, startX, startY, seeds, walks, nonTraceVars>>

\* return contour; if (contour.length >= 10) contours.push(contour); x++
TraceReturn ==
    /\ pc = "traced"
    /\ contours' = IF keepContour(contour) THEN Append(contours, contour) ELSE contours
    /\ walks' = Append(walks, contour)
    /\ sx' = sx + 1
    /\ pc' = "scan"
    /\ UNCHANGED <<imageVars, visited, sy, traceLocals, seeds, nonTraceVars>>

\* y reached height-1: return contours
ScanEnd ==
    /\ pc = "scan" /\ ~inRows
    /\ pc' = "found"
    /\ UNCHANGED <<imageVars, visited, contours, sx, sy, traceLocals, seeds, walks, nonTraceVars>>

FindContours ==
    \/ ScanNextRow
    \/ ScanSkip
    \/ ScanSeed
    \/ TraceStep
    \/ TraceReturn
    \/ ScanEnd

\* state at the entry of findContours(imageData)
FindContoursEntry ==
    /\ visited = [i \in 0..(width * height - 1) |-> 0]
    /\ contours = << >>
    /\ sx = scanFirst /\ sy = scanFirst
    /\ pc = "scan"
    /\ startX = 0 /\ startY = 0 /\ tx = 0 /\ ty = 0 /\ dir = 7
    /\ firstPoint = TRUE /\ iter = 0 /\ contour = << >>
    /\ seeds = << >> /\ walks = << >>

----------------------------------------------------------------------------
(* Contour post-processing: simplifyContour, pointLineDistance             *)

\* pointLineDistance(point, lineStart, lineEnd) on integer coordinates.
\* dx, dy, lenSq and the dot product are integers far below 2^53, on which
\* double arithmetic is exact; from the division on, every operation rounds.
distanceAt(point, lineStart, dx, dy, t) ==
    FSqrt(FAdd(FSquare(FSub(FFromInt(point.x),
                            FAdd(FFromInt(lineStart.x), FMul(t, FFromInt(dx))))),
               FSquare(FSub(FFromInt(point.y),
                            FAdd(FFromInt(lineStart.y), FMul(t, FFromInt(dy)))))))

pointLineDistance(point, lineStart, lineEnd) ==
    LET dx == lineEnd.x - lineStart.x
        dy == lineEnd.y - lineStart.y
        lenSq == dx * dx + dy * dy
        px == point.x - lineStart.x
        py == point.y - lineStart.y
    IN  IF lenSq = 0
        THEN FSqrt(FFromInt(px * px + py * py))
        ELSE distanceAt(point, lineStart, dx, dy,
                        FClamp01(FDivInts(px * dx + py * dy, lenSq)))
\* points.filter((p) => p && typeof p.x === 'number' && typeof p.y === 'number')
isValidPoint(p) == p \in [x : Int, y : Int]
validPointsOf(points) == SelectSeq(points, isValidPoint)

\* const dist = this.pointLineDistance(validPoints[i], start, end), for the
\* inner points i = 1 .. length - 2 of the for loop (0-based), in order
innerDistances(validPoints) ==
    [i \in 1..(Len(validPoints) - 2) |->
        pointLineDistance(validPoints[i + 1], validPoints[1],
                          validPoints[Len(validPoints)])] \o << >>

\* the for loop of simplifyContour over the inner points, i and maxIdx 0-based
RECURSIVE farthest(_, _, _, _)

\* if (dist > maxDist) { maxDist = dist; maxIdx = i }, then the next i
farthestWith(dists, i, maxDist, maxIdx, dist) ==
    IF FGt(dist, maxDist)
    THEN farthest(dists, i + 1, dist, i)
    ELSE farthest(dists, i + 1, maxDist, maxIdx)

farthest(dists, i, maxDist, maxIdx) ==
    IF i > Len(dists)
    THEN [maxDist |-> maxDist, maxIdx |-> maxIdx]
    ELSE farthestWith(dists, i, maxDist, maxIdx, dists[i])

collapse_dropsEnd(validPoints) == <<validPoints[1], validPoints[Len(validPoints) - 1]>>

\* return [start, end]
collapse(validPoints) == <<validPoints[1], validPoints[Len(validPoints)]>>

joinHalves_keepsSplitTwice(left, right) == left \o right

\* return left.slice(0, -1).concat(right)
joinHalves(left, right) == SubSeq(left, 1, Len(left) - 1) \o right

\* simplifyContour(points, tolerance), Douglas-Peucker
RECURSIVE simplifyContour(_, _)

\* if (maxDist > tolerance) { recurse on both halves } return [start, end]
splitAt(validPoints, far, tolerance) ==
    IF FGt(far.maxDist, tolerance)
    THEN joinHalves(
             simplifyContour(SubSeq(validPoints, 1, far.maxIdx + 1), tolerance),
             simplifyContour(SubSeq(validPoints, far.maxIdx + 1, Len(validPoints)),
                             tolerance))
    ELSE collapse(validPoints)

simplifyValid(validPoints, tolerance) ==
    IF Len(validPoints) <= 2 THEN validPoints
    ELSE splitAt(validPoints,
                 farthest(innerDistances(validPoints), 1, FZero, 0),
                 tolerance)

simplifyContour(points, tolerance) ==
    IF Len(points) <= 2 THEN points
    ELSE simplifyValid(validPointsOf(points), tolerance)

----------------------------------------------------------------------------
(* smoothContour *)

\* the % of JavaScript: the result has the sign of the dividend
JsRem(a, n) == IF a >= 0 THEN a % n ELSE -((-a) % n)

\* Math.round of the quotient s / c of two integers, c > 0 odd or even:
\* the nearest integer, halves upwards
RoundDiv(s, c) == (2 * s + c) \div (2 * c)

\* const window = Math.max(1, Math.floor(factor * 3)); the factor is kept in
\* tenths (0.5 is 5), for which floor(factor * 3) = floor(3 * tenths / 10)
smoothWindow(factor10) ==
    IF (3 * factor10) \div 10 > 1 THEN (3 * factor10) \div 10 ELSE 1

\* const idx = (i + j + validPoints.length) % validPoints.length
wrapIndex(i, j, n) == JsRem(i + j + n, n)

RECURSIVE windowSum(_, _, _, _, _)
windowSum(validPoints, i, j, window, coord) ==
    IF j > window THEN 0
    ELSE validPoints[wrapIndex(i, j, Len(validPoints)) + 1][coord]
           + windowSum(validPoints, i, j + 1, window, coord)

\* outcome of a call: the value returned, or the exception thrown
Returned(v) == [threw |-> "", value |-> v]
Thrown(e) == [threw |-> e, value |-> << >>]

\* smoothContour(points, factor); a TypeError is thrown when validPoints[idx]
\* is undefined (idx outside 0..length-1) and its .x is read
smoothContour(points, factor10) ==
    IF Len(points) < 3 THEN Returned(points)
    ELSE LET validPoints == validPointsOf(points)
             n == Len(validPoints)
             window == smoothWindow(factor10)
             count == 2 * window + 1
         IN  IF n < 3 THEN Returned(validPoints)
             ELSE IF \E i \in 0..(n - 1) : \E j \in (-window)..window :
                        wrapIndex(i, j, n) \notin 0..(n - 1)
             THEN Thrown("TypeError")
             ELSE Returned(
                    [i \in 1..n |->
                      Pt(RoundDiv(windowSum(validPoints, i - 1, -window, window, "x"), count),
                         RoundDiv(windowSum(validPoints, i - 1, -window, window, "y"), count))])

----------------------------------------------------------------------------
(* processContours *)

RECURSIVE shoelaceSum_open(_, _)
shoelaceSum_open(c, i) ==
    IF i >= Len(c) - 1 THEN 0
    ELSE c[i + 1].x * c[i + 2].y - c[i + 2].x * c[i + 1].y + shoelaceSum_open(c, i + 1)

\* the shoelace loop: area += x[i]*y[j] - x[j]*y[i], j = (i + 1) % length
RECURSIVE shoelaceSum(_, _)
shoelaceSum(c, i) ==
    IF i >= Len(c) THEN 0
    ELSE LET j == (i + 1) % Len(c)
         IN  c[i + 1].x * c[j + 1].y - c[j + 1].x * c[i + 1].y + shoelaceSum(c, i + 1)

Abs(n) == IF n < 0 THEN -n ELSE n

\* area = Math.abs(area / 2), kept as twice its value (an integer)
area2Of(c) == Abs(shoelaceSum(c, 0))

\* this.settings.smoothing > 0 ? this.smoothContour(simplified, smoothing) : simplified
smoothedOf(simplified, st) ==
    IF st.smoothing10 > 0
    THEN smoothContour(simplified, st.smoothing10)
    ELSE Returned(simplified)

\* the callback of contours.map; threw is set when smoothContour throws
regionFrom(c, smoothed) ==
    [threw |-> smoothed.threw,
     points |-> smoothed.value,
     area2 |-> area2Of(c),
     originalLength |-> Len(c),
     simplifiedLength |-> Len(smoothed.value)]

regionOf(c, st) ==
    regionFrom(c, smoothedOf(simplifyContour(c, st.simplifyTolerance), st))

keepRegion_below(region, st) == region.area2 <= 2 * st.minRegionArea

keepRegion_strict(region, st) == region.area2 > 2 * st.minRegionArea

\* .filter((region) => region.area >= this.settings.minRegionArea)
keepRegion(region, st) == region.area2 >= 2 * st.minRegionArea

RECURSIVE insertByArea_beforeTies(_, _)
insertByArea_beforeTies(sorted, r) ==
    IF sorted = << >> THEN <<r>>
    ELSE IF Head(sorted).area2 > r.area2
         THEN <<Head(sorted)>> \o insertByArea_beforeTies(Tail(sorted), r)
         ELSE <<r>> \o sorted

\* insert r behind every region whose area is not smaller: a stable sort
RECURSIVE insertByArea(_, _)
insertByArea(sorted, r) ==
    IF sorted = << >> THEN <<r>>
    ELSE IF Head(sorted).area2 >= r.area2
         THEN <<Head(sorted)>> \o insertByArea(Tail(sorted), r)
         ELSE <<r>> \o sorted

\* .sort((a, b) => b.area - a.area): Array.prototype.sort is stable
RECURSIVE sortByArea(_)
sortByArea(rs) ==
    IF rs = << >> THEN << >>
    ELSE insertByArea(sortByArea(SubSeq(rs, 1, Len(rs) - 1)), rs[Len(rs)])

\* processContours(contours): the region list, or the TypeError of
\* smoothContour for one of the contours
filterAndSort(mapped, st) ==
    IF \E k \in 1..Len(mapped) : mapped[k].threw # ""
    THEN Thrown("TypeError")
    ELSE Returned(sortByArea(SelectSeq(mapped, LAMBDA r : keepRegion(r, st))))

processContours(cs, st) ==
    filterAndSort([k \in 1..Len(cs) |-> regionOf(cs[k], st)], st)

----------------------------------------------------------------------------
(* generateSVG, pointsToPath                                               *)
(*                                                                         *)
(* The document is kept as the element tree that the template literals     *)
(* spell out: an element is [tag, attrs, children], attrs the sequence of  *)
(* <<name, value>> pairs in the order of the template, every value the     *)
(* text the template prints.                                               *)

\* `${points[i].x},${points[i].y}`
coordText(p) == ToString(p.x) \o "," \o ToString(p.y)

\* the for loop of pointsToPath from index i (0-based) on
RECURSIVE lineTos(_, _)
lineTos(points, i) ==
    IF i >= Len(points) THEN ""
    ELSE " L " \o coordText(points[i + 1]) \o lineTos(points, i + 1)

\* for (let i = 1; ...): the first point is the M command
pathStart == 1

\* d += ' Z'
closePath == " Z"

pointsToPath(points) ==
    IF Len(points) = 0 THEN ""
    ELSE "M " \o coordText(points[1]) \o lineTos(points, pathStart) \o closePath

pathIndex_oneBased(k) == k

\* the index handed to the callback of regions.map for the k-th region
pathIndex(k) == k - 1

\* the template of one <path .../>
pathElement(region, index, st) ==
    [tag |-> "path",
     attrs |-> << <<"id", ToString(index)>>,
                  <<"class", "region">>,
                  <<"d", pointsToPath(region.points)>>,
                  <<"fill", "none">>,
                  <<"stroke", "#000">>,
                  <<"stroke-width", ToString(st.strokeWidth)>>,
                  <<"data-index", ToString(index)>>,
                  <<"style", "stroke: rgb(51, 51, 51); stroke-width: "
                               \o ToString(st.strokeWidth)
                               \o "; cursor: pointer; pointer-events: auto; fill: rgba(200, 200, 200, "
                               \o st.fillOpacity \o "); fill-opacity: "
                               \o st.fillOpacity \o ";">> >>,
     children |-> << >>]

\* generateSVG(regions, width, height)
generateSVG(rs, w, h, st) ==
    [tag |-> "svg",
     attrs |-> << <<"id", "mapSvg">>,
                  <<"viewBox", "0 0 " \o ToString(w) \o " " \o ToString(h)>>,
                  <<"xmlns", "http://www.w3.org/2000/svg">> >>,
     children |-> << [tag |-> "g",
                      attrs |-> << <<"id", "map">> >>,
                      children |-> [k \in 1..Len(rs) |->
                                      pathElement(rs[k], pathIndex(k), st)]] >>]

----------------------------------------------------------------------------
(* Operations on the outcome of findContours and on single contours *)

\* the constructor's this.settings; smoothing is kept in tenths and
\* fillOpacity as the text that a template literal prints for it
DefaultSettings ==
    [edgeThreshold |-> 50, edgeRadius |-> 2,
     grayscale |-> TRUE, invert |-> TRUE, blur |-> 1, posterize |-> 0,
     minRegionArea |-> 100, simplifyTolerance |-> FFromInt(2), smoothing10 |-> 5,
     strokeWidth |-> 1, fillOpacity |-> "0.1"]

NotCalled == [threw |-> "pending", value |-> << >>]

\* const regions = this.processContours(contours)
ProcessContours ==
    /\ pc = "found"
    /\ regions' = processContours(contours, settings)
    /\ pc' = IF regions'.threw = "" THEN "processed" ELSE "failed"
    /\ UNCHANGED <<imageVars, visited, contours, sx, sy, traceLocals, seeds, walks,
                   settings, contourVars, emitVars, pipeVars, appVars>>

\* the tolerances tried on a contour, in increasing order, in halves
TolHalves == <<0, 1, 2, 4>>
Tolerance(k) == FDivInts(TolHalves[k], 2)

\* simplifyContour(pts, tolerance) with the next tolerance
Simplify ==
    /\ pc = "contour"
    /\ tolIdx < Len(TolHalves)
    /\ simplifiedAt' = Append(simplifiedAt, simplifyContour(pts, Tolerance(tolIdx + 1)))
    /\ tolIdx' = tolIdx + 1
    /\ UNCHANGED <<traceVars, postVars, pts, factorTenths, smoothResult, emitVars, pipeVars, appVars>>

\* smoothContour(pts, factor)
Smooth ==
    /\ pc = "contour"
    /\ smoothResult = NotCalled
    /\ smoothResult' = smoothContour(pts, factorTenths)
    /\ UNCHANGED <<traceVars, postVars, pts, tolIdx, simplifiedAt, factorTenths, emitVars, pipeVars, appVars>>

\* no findContours run
TraceIdle ==
    /\ width = 0 /\ height = 0 /\ data = << >>
    /\ visited = << >> /\ contours = << >>
    /\ sx = 0 /\ sy = 0
    /\ pc = "contour"
    /\ startX = 0 /\ startY = 0 /\ tx = 0 /\ ty = 0 /\ dir = 7
    /\ firstPoint = TRUE /\ iter = 0 /\ contour = << >>
    /\ seeds = << >> /\ walks = << >>

\* no contour under simplifyContour / smoothContour
ContourIdle ==
    /\ pts = << >>
    /\ tolIdx = 0 /\ simplifiedAt = << >>
    /\ factorTenths = 0 /\ smoothResult = NotCalled

\* generateSVG not called
NoDocument == [tag |-> "", attrs |-> << >>, children |-> << >>]
EmitIdle == svg = NoDocument

\* processImage not called
Runs == 1..MaxRuns
NoResult == [threw |-> "pending", value |-> << >>]
\* processImage(imageFile) with no settings argument: settings = {}
NoOverrides == [k \in {} |-> 0]
\* new ImageConverterUI(app): currentImage = null, currentResult = null, no
\* timer set; new Store(StoreKeys all 0): no listener registered
UIIdle ==
    /\ currentImage = << >> /\ currentResult = << >>
    /\ awaiting = {} /\ timers = {} /\ settingsTimeout = 0
    /\ now = 0 /\ changes = << >> /\ fired = << >>
BusIdle ==
    /\ _events = [e \in {} |-> << >>]
    /\ _state = [a |-> 0, b |-> 0]
    /\ listeners = << >> /\ stack = << >>
    /\ log = << >> /\ setCalls = << >>
AppIdle == UIIdle /\ BusIdle

NoFile == [readable |-> FALSE, width |-> 0, height |-> 0, data |-> << >>]
PipeIdle ==
    /\ heap = << >> /\ imageData = 0
    /\ steps = [r \in Runs |-> << >>] /\ after = [r \in Runs |-> << >>]
    /\ reads = [r \in Runs |-> << >>] /\ calls = [r \in Runs |-> << >>]
    /\ phase = [r \in Runs |-> "idle"] /\ current = 0
    /\ files = [r \in Runs |-> NoFile] /\ established = [r \in Runs |-> settings]
    /\ supplied = [r \in Runs |-> NoOverrides]
    /\ result = [r \in Runs |-> NoResult]
    /\ AppIdle

----------------------------------------------------------------------------
(* Specification: findContours on every binary image up to MaxW x MaxH *)

InitTrace ==
    /\ width \in 1..MaxW
    /\ height \in 1..MaxH
    /\ data \in [0..(width * height - 1) -> {0, 255}]
    /\ FindContoursEntry
    /\ settings = DefaultSettings
    /\ regions = NotCalled
    /\ ContourIdle
    /\ EmitIdle
    /\ PipeIdle

NextTrace == FindContours

SpecTrace == InitTrace /\ [][NextTrace]_vars

----------------------------------------------------------------------------
(* Specification: a 10x10 white square strictly inside a black 30x30       *)
(* image, traced and post-processed with minRegionArea 50 or 200           *)

SquareImage(ox, oy) ==
    [i \in 0..(30 * 30 - 1) |->
        IF i % 30 \in ox..(ox + 9) /\ i \div 30 \in oy..(oy + 9) THEN 255 ELSE 0]

InitSquare ==
    /\ width = 30
    /\ height = 30
    /\ \E ox \in {1, 5, 10, 15, 19} : \E oy \in {1, 5, 10, 15, 19} : data = SquareImage(ox, oy)
    /\ FindContoursEntry
    /\ settings \in {[DefaultSettings EXCEPT !.minRegionArea = a] : a \in {50, 200}}
    /\ regions = NotCalled
    /\ ContourIdle
    /\ EmitIdle
    /\ PipeIdle

NextSquare == FindContours \/ ProcessContours

SpecSquare == InitSquare /\ [][NextSquare]_vars

----------------------------------------------------------------------------
(* Specifications: simplifyContour and smoothContour on single contours *)

GridPoints == {Pt(x, y) : x \in 0..MaxX, y \in 0..MaxY}

GridContours == UNION {[1..n -> GridPoints] : n \in 0..MaxLen}

InitContour ==
    /\ TraceIdle
    /\ settings = DefaultSettings
    /\ regions = NotCalled
    /\ tolIdx = 0 /\ simplifiedAt = << >>
    /\ smoothResult = NotCalled
    /\ EmitIdle
    /\ PipeIdle

InitSimplify ==
    /\ InitContour
    /\ pts \in GridContours
    /\ factorTenths = 0

SpecSimplify == InitSimplify /\ [][Simplify]_vars

\* contours whose points all lie on one segment: 0, k*u, n*u, and 0, u, 2u, .., n*u
LineDirs == {<<1, 0>>, <<0, 1>>, <<1, 1>>}
LinePoints(u, ks) == [i \in 1..Len(ks) |-> Pt(u[1] * ks[i], u[2] * ks[i])]
CollinearContours ==
    UNION {{LinePoints(u, <<0, k, n>>) : u \in LineDirs, k \in 1..(n - 1)}
           \cup {LinePoints(u, [i \in 1..(n + 1) |-> i - 1]) : u \in LineDirs} :
           n \in 2..MaxSpan}

InitCollinear ==
    /\ InitContour
    /\ pts \in CollinearContours
    /\ factorTenths = 0

SpecCollinear == InitCollinear /\ [][Simplify]_vars

InitSmooth ==
    /\ InitContour
    /\ pts \in GridContours
    /\ factorTenths \in 1..MaxFactor10

SpecSmooth == InitSmooth /\ [][Smooth]_vars

----------------------------------------------------------------------------
(* Specification: processContours and generateSVG on lists of up to        *)
(* MaxRegions contours, each the corners of a rectangle or of a right      *)
(* triangle, with minRegionArea in 1..MaxMinArea and simplifyTolerance 0   *)
(* or 2                                                                    *)

\* const svg = this.generateSVG(regions, img.width, img.height)
GenerateSVG ==
    /\ pc = "processed"
    /\ svg' = generateSVG(regions.value, width, height, settings)
    /\ pc' = "emitted"
    /\ UNCHANGED <<imageVars, visited, contours, sx, sy, traceLocals, seeds, walks,
                   postVars, contourVars, pipeVars, appVars>>

Rectangle(w, h) == <<Pt(0, 0), Pt(w, 0), Pt(w, h), Pt(0, h)>>
Triangle(w, h) == <<Pt(0, 0), Pt(w, 0), Pt(0, h)>>

Shapes ==
    {Rectangle(w, h) : w \in 1..MaxSideW, h \in 1..MaxSideH}
        \cup {Triangle(w, h) : w \in 1..MaxSideW, h \in 1..MaxSideH}

ShapeLists == UNION {[1..n -> Shapes] : n \in 0..MaxRegions}

\* findContours has returned the list
InitRegions ==
    /\ width = MaxSideW + 1
    /\ height = MaxSideH + 1
    /\ data = [i \in 0..(width * height - 1) |-> 0]
    /\ visited = [i \in 0..(width * height - 1) |-> 0]
    /\ contours \in ShapeLists
    /\ sx = scanFirst /\ sy = height - 1
    /\ pc = "found"
    /\ startX = 0 /\ startY = 0 /\ tx = 0 /\ ty = 0 /\ dir = 7
    /\ firstPoint = TRUE /\ iter = 0 /\ contour = << >>
    /\ seeds = << >> /\ walks = << >>
    /\ settings \in {[DefaultSettings EXCEPT !.minRegionArea = a, !.simplifyTolerance = FFromInt(t)] :
                        a \in 1..MaxMinArea, t \in {0, 2}}
    /\ regions = NotCalled
    /\ ContourIdle
    /\ EmitIdle
    /\ PipeIdle

NextRegions == ProcessContours \/ GenerateSVG

SpecRegions == InitRegions /\ [][NextRegions]_vars

----------------------------------------------------------------------------
(* Specification: findContours, processContours and generateSVG on every   *)
(* image up to MaxEmitW x MaxEmitH whose pixels are 0 or one lighter value, *)
(* 127 (still black) or 255 (white), with minRegionArea 1 or 100            *)

LightValues == {127, 255}

InitEmit ==
    /\ width \in 1..MaxEmitW
    /\ height \in 1..MaxEmitH
    /\ \E light \in LightValues : data \in [0..(width * height - 1) -> {0, light}]
    /\ FindContoursEntry
    /\ settings \in {[DefaultSettings EXCEPT !.minRegionArea = a] : a \in {1, 100}}
    /\ regions = NotCalled
    /\ ContourIdle
    /\ EmitIdle
    /\ PipeIdle

NextEmit == FindContours \/ ProcessContours \/ GenerateSVG

SpecEmit == InitEmit /\ [][NextEmit]_vars

----------------------------------------------------------------------------
(* Pixel stages.  An ImageData is [width, height, data]; data is the       *)
(* Uint8ClampedArray, element i of the code at position i + 1.  The stages *)
(* write into the array they are given and return the same object; the     *)
(* operators give the contents of the array after the call.                *)

\* a store of a non-negative integer quantity h / 2 (sticky: a little more)
\* into a Uint8ClampedArray: nearest integer, ties to even
nearestEven_floor(h, sticky) == h \div 2
nearestEven(h, sticky) ==
    IF h % 2 = 1 /\ (sticky \/ (h \div 2) % 2 = 1) THEN h \div 2 + 1 ELSE h \div 2

\* a store of the double a into a Uint8ClampedArray: clamped to 0..255, then
\* rounded
ToUint8Clamp(a) ==
    IF FSign(a) <= 0 THEN 0
    ELSE IF FCmp(a, FFromInt(255)) >= 0 THEN 255
    ELSE nearestEven(BToInt(FHalves(a).q), FHalves(a).sticky)

\* the literals 0.299, 0.587, 0.114 of toGrayscale and 2.55 of threshold
weightR == FDivInts(299, 1000)
weightG == FDivInts(587, 1000)
weightB == FDivInts(114, 1000)
percent == FDivInts(255, 100)

pixelCount(img) == Len(img.data) \div 4
\* channel (0 red, 1 green, 2 blue, 3 alpha) and pixel of position i, and the
\* position of the red value of that pixel
channelOf(i) == (i - 1) % 4
pixelOf(i) == (i - 1) \div 4 + 1
redAt(i) == i - channelOf(i)

\* the array made of the pixels px[p] = <<r, g, b, a>>
fromPixels(img, px) ==
    [img EXCEPT !.data = [i \in 1..Len(img.data) |-> px[pixelOf(i)][channelOf(i) + 1]]]

\* data[i] = data[i + 1] = data[i + 2] = v, alpha left alone
grayPixel(v, alpha) == <<v, v, v, alpha>>

\* const gray = 0.299 * data[i] + 0.587 * data[i + 1] + 0.114 * data[i + 2]
grayOf(r, g, b) ==
    FAdd(FAdd(FMul(weightR, FFromInt(r)), FMul(weightG, FFromInt(g))),
         FMul(weightB, FFromInt(b)))

grayByte(d, i) == ToUint8Clamp(grayOf(d[i], d[i + 1], d[i + 2]))

toGrayscale(img) ==
    fromPixels(img, [p \in 1..pixelCount(img) |->
                        grayPixel(grayByte(img.data, 4 * p - 3), img.data[4 * p])])

\* const value = data[i] > thresh ? 255 : 0
thresholdValue_keep(v, thresh) == IF FGt(FFromInt(v), thresh) THEN v ELSE 0
thresholdValue(v, thresh) == IF FGt(FFromInt(v), thresh) THEN 255 ELSE 0

threshValues(img, thresh) ==
    fromPixels(img, [p \in 1..pixelCount(img) |->
                        grayPixel(thresholdValue(img.data[4 * p - 3], thresh), img.data[4 * p])])

\* const thresh = level * 2.55
threshold(img, level) == threshValues(img, FMul(FFromInt(level), percent))

----------------------------------------------------------------------------
(* Specifications: one pixel stage called up to MaxApplications times on a *)
(* buffer of two pixels                                                    *)

ImageOf(w, h, d) == [width |-> w, height |-> h, data |-> d]
FileOf(img) == [readable |-> TRUE, width |-> img.width, height |-> img.height, data |-> img.data]
Called(op, arg) == [op |-> op, arg |-> arg]

\* the stage has run on the working buffer of the current run
stageDone(img, call) ==
    /\ heap' = [heap EXCEPT ![imageData] = img]
    /\ after' = [after EXCEPT ![current] = Append(@, heap'[imageData])]
    /\ calls' = [calls EXCEPT ![current] = Append(@, call)]

\* imageData = this.toGrayscale(imageData)
GrayscaleCall ==
    /\ pc = "pixels" /\ current # 0
    /\ Len(after[current]) < MaxApplications
    /\ stageDone(toGrayscale(heap[imageData]), Called("toGrayscale", 0))
    /\ UNCHANGED <<traceVars, postVars, contourVars, emitVars, appVars,
                   imageData, steps, reads, phase, current, files, established, supplied, result>>

\* imageData = this.threshold(imageData, this.settings.edgeThreshold)
ThresholdCall ==
    /\ pc = "pixels" /\ current # 0
    /\ Len(after[current]) < MaxApplications
    /\ stageDone(threshold(heap[imageData], settings.edgeThreshold),
                 Called("threshold", settings.edgeThreshold))
    /\ UNCHANGED <<traceVars, postVars, contourVars, emitVars, appVars,
                   imageData, steps, reads, phase, current, files, established, supplied, result>>

\* a buffer handed to a stage by the first run, outside processImage
PixelsEntry(img) ==
    /\ width = 0 /\ height = 0 /\ data = << >>
    /\ visited = << >> /\ contours = << >>
    /\ sx = 0 /\ sy = 0
    /\ pc = "pixels"
    /\ startX = 0 /\ startY = 0 /\ tx = 0 /\ ty = 0 /\ dir = 7
    /\ firstPoint = TRUE /\ iter = 0 /\ contour = << >>
    /\ seeds = << >> /\ walks = << >>
    /\ regions = NotCalled
    /\ ContourIdle
    /\ EmitIdle
    /\ heap = <<img>> /\ imageData = 1
    /\ steps = [r \in Runs |-> << >>] /\ after = [r \in Runs |-> << >>]
    /\ reads = [r \in Runs |-> << >>] /\ calls = [r \in Runs |-> << >>]
    /\ phase = [r \in Runs |-> IF r = 1 THEN "running" ELSE "idle"] /\ current = 1
    /\ files = [r \in Runs |-> IF r = 1 THEN FileOf(img) ELSE NoFile]
    /\ established = [r \in Runs |-> settings]
    /\ supplied = [r \in Runs |-> NoOverrides]
    /\ result = [r \in Runs |-> NoResult]
    /\ AppIdle

\* first pixels: every gray, and the colours over a few channel values
ChannelSample == {0, 1, 127, 128, 254, 255}
AlphaSample == {0, 255}
GrayPixels == {<<g, g, g, a>> : g \in 0..255, a \in AlphaSample}
ColourPixels ==
    {<<r, g, b, a>> : r \in ChannelSample, g \in ChannelSample, b \in ChannelSample,
                      a \in AlphaSample}
SecondPixels == {<<0, 0, 0, 255>>, <<10, 200, 30, 128>>}

InitGray ==
    /\ settings = DefaultSettings
    /\ \E p \in GrayPixels \cup ColourPixels, q \in SecondPixels :
           PixelsEntry(ImageOf(2, 1, p \o q))

NextGray == GrayscaleCall

SpecGray == InitGray /\ [][NextGray]_vars

\* first pixels of every red value; levels 0..100 (the range of the slider)
RedPixels == {<<r, gba[1], gba[2], gba[3]>> : r \in 0..255, gba \in {<<0, 0, 255>>, <<255, 7, 0>>}}
Levels == 0..100

InitThreshold ==
    /\ settings \in {[DefaultSettings EXCEPT !.edgeThreshold = level] : level \in Levels}
    /\ \E p \in RedPixels : PixelsEntry(ImageOf(2, 1, p \o <<200, 0, 50, 128>>))

NextThreshold == ThresholdCall

SpecThreshold == InitThreshold /\ [][NextThreshold]_vars
----------------------------------------------------------------------------
(* The other pixel stages *)

xOfPixel(img, p) == (p - 1) % img.width
yOfPixel(img, p) == (p - 1) \div img.width

\* data[((y * width + x) * 4) + c]
channelAt(img, x, y, c) == img.data[(y * img.width + x) * 4 + c + 1]

\* the loops of applyBlur and detectEdges leave a frame of r pixels out
framed(img, p, r) ==
    /\ xOfPixel(img, p) >= r /\ xOfPixel(img, p) < img.width - r
    /\ yOfPixel(img, p) >= r /\ yOfPixel(img, p) < img.height - r

\* r += data[idx] over the (2 * radius + 1)^2 window, cell k of it onwards
RECURSIVE windowTotal(_, _, _, _, _, _)
windowTotal(img, x, y, c, radius, k) ==
    IF k >= (2 * radius + 1) * (2 * radius + 1) THEN 0
    ELSE channelAt(img, x + (k % (2 * radius + 1)) - radius,
                        y + (k \div (2 * radius + 1)) - radius, c)
           + windowTotal(img, x, y, c, radius, k + 1)

\* result[idx] = r / area
blurByte(img, x, y, c, radius) ==
    ToUint8Clamp(FDivInts(windowTotal(img, x, y, c, radius, 0),
                          (2 * radius + 1) * (2 * radius + 1)))

blurPixel(img, x, y, radius, p) ==
    <<blurByte(img, x, y, 0, radius), blurByte(img, x, y, 1, radius),
      blurByte(img, x, y, 2, radius), img.data[4 * p]>>

keptPixel_black(img, p) == <<0, 0, 0, img.data[4 * p]>>

keptPixel(img, p) ==
    <<img.data[4 * p - 3], img.data[4 * p - 2], img.data[4 * p - 1], img.data[4 * p]>>

applyBlur(img, radius) ==
    fromPixels(img, [p \in 1..pixelCount(img) |->
        IF framed(img, p, radius)
        THEN blurPixel(img, xOfPixel(img, p), yOfPixel(img, p), radius, p)
        ELSE keptPixel(img, p)])

posterizeByte_index(v, step) ==
    ToUint8Clamp(FFromInt(MathRound(FDiv(FFromInt(v), step))))

\* Math.round(data[i] / step) * step
posterizeByte(v, step) ==
    ToUint8Clamp(FMul(FFromInt(MathRound(FDiv(FFromInt(v), step))), step))

posterizeWith(img, step) ==
    fromPixels(img, [p \in 1..pixelCount(img) |->
        <<posterizeByte(img.data[4 * p - 3], step), posterizeByte(img.data[4 * p - 2], step),
          posterizeByte(img.data[4 * p - 1], step), img.data[4 * p]>>])

\* const step = 255 / levels
posterize(img, levels) == posterizeWith(img, FDivInts(255, levels))

sobelX == <<<<-1, 0, 1>>, <<-2, 0, 2>>, <<-1, 0, 1>>>>
sobelY == <<<<-1, -2, -1>>, <<0, 0, 0>>, <<1, 2, 1>>>>

\* gx += gray * sobelX[dy + 1][dx + 1] over the 3 x 3 window, cell k onwards
RECURSIVE gradient(_, _, _, _, _)
gradient(img, x, y, kernel, k) ==
    IF k >= 9 THEN 0
    ELSE channelAt(img, x + (k % 3) - 1, y + (k \div 3) - 1, 0) * kernel[(k \div 3) + 1][(k % 3) + 1]
           + gradient(img, x, y, kernel, k + 1)

\* Math.sqrt(gx * gx + gy * gy)
magnitudeOf(gx, gy) == FSqrt(FFromInt(gx * gx + gy * gy))

\* Math.min(255, magnitude)
min255(m) == IF FGt(m, FFromInt(255)) THEN FFromInt(255) ELSE m

edgeByte(img, x, y) ==
    ToUint8Clamp(min255(magnitudeOf(gradient(img, x, y, sobelX, 0),
                                    gradient(img, x, y, sobelY, 0))))

\* a detector whose frame grows with the radius
detectEdges_byRadius(img, radius) ==
    fromPixels(img, [p \in 1..pixelCount(img) |->
        IF framed(img, p, radius)
        THEN grayPixel(edgeByte(img, xOfPixel(img, p), yOfPixel(img, p)), 255)
        ELSE <<0, 0, 0, 0>>])

\* detectEdges(imageData, radius = 1): the loops and the kernels are those of
\* the 3 x 3 Sobel pair whatever radius is; result is new
\* Uint8ClampedArray(data.length): zero outside the loops, alpha included
detectEdges(img, radius) ==
    fromPixels(img, [p \in 1..pixelCount(img) |->
        IF framed(img, p, 1)
        THEN grayPixel(edgeByte(img, xOfPixel(img, p), yOfPixel(img, p)), 255)
        ELSE <<0, 0, 0, 0>>])

invertImage(img) ==
    fromPixels(img, [p \in 1..pixelCount(img) |->
        <<255 - img.data[4 * p - 3], 255 - img.data[4 * p - 2],
          255 - img.data[4 * p - 1], img.data[4 * p]>>])

----------------------------------------------------------------------------
(* processImage.  A call merges its settings into this.settings and awaits *)
(* the decoding of its file; when the file is decoded the rest of the run  *)
(* is synchronous code, modelled one stage a step, and no other call or    *)
(* continuation starts before it has returned.                             *)

\* { ...this.settings, ...settings }
merge(base, overrides) ==
    [k \in DOMAIN base \cup DOMAIN overrides |->
        IF k \in DOMAIN overrides THEN overrides[k] ELSE base[k]]

\* new ImageData(new Uint8ClampedArray(imageData.data), width, height): the
\* heap with the copy allocated, and the reference of the copy
cloneImageData_alias(h, ref) == [heap |-> h, ref |-> ref]
cloneImageData(h, ref) == [heap |-> Append(h, h[ref]), ref |-> Len(h) + 1]

\* img.onload fires for a file that decodes, img.onerror for any other
decodes_always(file) == TRUE
decodes(file) == file.readable

\* the conditions of the optional stages
grayscaleEnabled(st) == st.grayscale
blurEnabled(st) == st.blur > 0
posterizeEnabled(st) == st.posterize > 0
invertEnabled_always(st) == TRUE
invertEnabled(st) == st.invert

runVars == <<phase, current, files, established, supplied, result>>
traceState == <<visited, contours, sx, sy, traceLocals, seeds, walks>>

\* async processImage(imageFile, settings) up to the await
processImage(r, file, overrides) ==
    /\ current = 0
    /\ phase[r] = "idle"
    /\ \A q \in 1..(r - 1) : phase[q] # "idle"
    /\ settings' = merge(settings, overrides)
    /\ established' = [established EXCEPT ![r] = settings']
    /\ supplied' = [supplied EXCEPT ![r] = overrides]
    /\ files' = [files EXCEPT ![r] = file]
    /\ phase' = [phase EXCEPT ![r] = "awaiting"]
    /\ UNCHANGED <<traceVars, regions, contourVars, emitVars,
                   heap, imageData, steps, after, reads, calls, current, result>>

\* a call of converter.processImage from outside the converter panel
Call(r, file, overrides) == processImage(r, file, overrides) /\ UNCHANGED appVars

\* img.onerror = reject: the await throws and the promise of the run rejects
LoadFails(r) ==
    /\ current = 0
    /\ phase[r] = "awaiting"
    /\ ~decodes(files[r])
    /\ phase' = [phase EXCEPT ![r] = "rejected"]
    /\ result' = [result EXCEPT ![r] = Thrown("error event")]
    /\ UNCHANGED <<traceVars, postVars, contourVars, emitVars, appVars,
                   heap, imageData, steps, after, reads, calls, current, files, established, supplied>>

\* img.onload: the run resumes; canvas sized, image drawn, getImageData,
\* const steps = []
Loaded(r) ==
    /\ current = 0
    /\ phase[r] = "awaiting"
    /\ decodes(files[r])
    /\ heap' = Append(heap, ImageOf(files[r].width, files[r].height, files[r].data))
    /\ imageData' = Len(heap) + 1
    /\ steps' = [steps EXCEPT ![r] = << >>]
    /\ phase' = [phase EXCEPT ![r] = "running"]
    /\ current' = r
    /\ pc' = "grayscale"
    /\ UNCHANGED <<imageVars, traceState, postVars, contourVars, emitVars, appVars,
                   after, reads, calls, files, established, supplied, result>>

\* steps.push({ name, data: this.cloneImageData(imageData) })
pushSnapshot(name, cloned) ==
    /\ heap' = cloned.heap
    /\ steps' = [steps EXCEPT ![current] = Append(@, [name |-> name, data |-> cloned.ref])]

\* imageData = this.stage(imageData, ...) and the push of its snapshot
stagePushed(name, img, call) ==
    /\ pushSnapshot(name, cloneImageData([heap EXCEPT ![imageData] = img], imageData))
    /\ after' = [after EXCEPT ![current] = Append(@, img)]
    /\ calls' = [calls EXCEPT ![current] = Append(@, call)]

stageSkipped == UNCHANGED <<heap, steps, after, calls>>

hasRead(key) == reads' = [reads EXCEPT ![current] = Append(@, <<key, settings[key]>>)]

stageFrame == UNCHANGED <<imageVars, traceState, postVars, contourVars, emitVars, appVars,
                          imageData, runVars>>

\* Step 1: if (this.settings.grayscale) ...
Grayscale ==
    /\ pc = "grayscale"
    /\ hasRead("grayscale")
    /\ IF grayscaleEnabled(settings)
       THEN stagePushed("Grayscale", toGrayscale(heap[imageData]), Called("toGrayscale", 0))
       ELSE stageSkipped
    /\ pc' = "blur"
    /\ stageFrame

\* Step 2: if (this.settings.blur > 0) ...
Blur ==
    /\ pc = "blur"
    /\ hasRead("blur")
    /\ IF blurEnabled(settings)
       THEN stagePushed("Blur", applyBlur(heap[imageData], settings.blur),
                        Called("applyBlur", settings.blur))
       ELSE stageSkipped
    /\ pc' = "posterize"
    /\ stageFrame

\* Step 3: if (this.settings.posterize > 0) ...
Posterize ==
    /\ pc = "posterize"
    /\ hasRead("posterize")
    /\ IF posterizeEnabled(settings)
       THEN stagePushed("Posterize", posterize(heap[imageData], settings.posterize),
                        Called("posterize", settings.posterize))
       ELSE stageSkipped
    /\ pc' = "edges"
    /\ stageFrame

\* Step 4: imageData = this.detectEdges(imageData, this.settings.edgeRadius)
Edges ==
    /\ pc = "edges"
    /\ hasRead("edgeRadius")
    /\ stagePushed("Edges", detectEdges(heap[imageData], settings.edgeRadius),
                   Called("detectEdges", settings.edgeRadius))
    /\ pc' = "invert"
    /\ stageFrame

\* Step 5: if (this.settings.invert) ...
Invert ==
    /\ pc = "invert"
    /\ hasRead("invert")
    /\ IF invertEnabled(settings)
       THEN stagePushed("Invert", invertImage(heap[imageData]), Called("invertImage", 0))
       ELSE stageSkipped
    /\ pc' = "threshold"
    /\ stageFrame

\* Step 6: threshold(imageData, this.settings.edgeThreshold)
Threshold ==
    /\ pc = "threshold"
    /\ hasRead("edgeThreshold")
    /\ stagePushed("Threshold", threshold(heap[imageData], settings.edgeThreshold),
                   Called("threshold", settings.edgeThreshold))
    /\ pc' = "contours"
    /\ stageFrame

\* Step 7: this.findContours(imageData) is entered
FindContoursBegin ==
    /\ pc = "contours"
    /\ width' = heap[imageData].width
    /\ height' = heap[imageData].height
    /\ data' = [i \in 0..(width' * height' - 1) |-> heap[imageData].data[4 * i + 1]]
    /\ visited' = [i \in 0..(width' * height' - 1) |-> 0]
    /\ contours' = << >>
    /\ sx' = scanFirst /\ sy' = scanFirst
    /\ pc' = "scan"
    /\ startX' = 0 /\ startY' = 0 /\ tx' = 0 /\ ty' = 0 /\ dir' = 7
    /\ firstPoint' = TRUE /\ iter' = 0 /\ contour' = << >>
    /\ seeds' = << >> /\ walks' = << >>
    /\ calls' = [calls EXCEPT ![current] = Append(@, Called("findContours", 0))]
    /\ UNCHANGED <<postVars, contourVars, emitVars, appVars,
                   heap, imageData, steps, after, reads, runVars>>

\* steps.push({ name: 'Contours', count: contours.length }) and
\* Step 8: const regions = this.processContours(contours)
ContoursStage ==
    /\ pc = "found" /\ current # 0
    /\ steps' = [steps EXCEPT ![current] =
                    Append(@, [name |-> "Contours", count |-> Len(contours)])]
    /\ regions' = processContours(contours, settings)
    /\ pc' = IF regions'.threw = "" THEN "processed" ELSE "failed"
    /\ calls' = [calls EXCEPT ![current] = Append(@, Called("processContours", 0))]
    /\ UNCHANGED <<imageVars, traceState, settings, contourVars, emitVars, appVars,
                   heap, imageData, after, reads, runVars>>

\* return { svg, regions, steps, dimensions }, or the exception of
\* processContours leaving processImage: the promise of the run settles
Settle ==
    /\ pc \in {"emitted", "failed"} /\ current # 0
    /\ result' = [result EXCEPT ![current] =
                     IF pc = "failed" THEN Thrown(regions.threw)
                     ELSE Returned([svg |-> svg, regions |-> regions.value,
                                    steps |-> steps[current],
                                    dimensions |-> [width |-> width, height |-> height]])]
    /\ phase' = [phase EXCEPT ![current] = IF pc = "failed" THEN "rejected" ELSE "returned"]
    /\ current' = 0
    /\ pc' = "idle"
    /\ UNCHANGED <<imageVars, traceState, postVars, contourVars, emitVars, appVars,
                   heap, imageData, steps, after, reads, calls, files, established, supplied>>

----------------------------------------------------------------------------
(* Specification: up to MaxRuns calls of processImage on one converter,    *)
(* each with a file that does not decode, a 3 x 3 image or a 6 x 6 image,  *)
(* and one of five settings objects                                        *)

\* the object that ImageConverterUI.getSettings builds
UISettings(edgeThreshold, blur, levels, grayscale, invert) ==
    [edgeThreshold |-> edgeThreshold, edgeRadius |-> 2, blur |-> blur,
     posterize |-> levels, grayscale |-> grayscale, invert |-> invert,
     minRegionArea |-> 1, simplifyTolerance |-> FFromInt(2), smoothing10 |-> 5]

Overrides ==
    {NoOverrides,
     UISettings(20, 0, 0, FALSE, FALSE),
     UISettings(50, 0, 4, TRUE, TRUE),
     UISettings(50, 1, 2, TRUE, FALSE),
     [invert |-> FALSE, blur |-> -1, posterize |-> -1]}

\* a 3 x 3 image of mixed colours and alphas
SmallImage ==
    ImageOf(3, 3, <<200, 10, 30, 255,   0, 0, 0, 255,         9, 99, 199, 7,
                    17, 80, 3, 255,     120, 121, 122, 255,   60, 0, 0, 255,
                    0, 0, 0, 0,         50, 50, 50, 255,      250, 128, 0, 128>>)

\* a 6 x 6 image: a light 2 x 2 block in the middle of a dark ground
blockPixel(p) ==
    IF (p - 1) % 6 \in {2, 3} /\ (p - 1) \div 6 \in {2, 3}
    THEN <<250, 200, 40, 255>> ELSE <<10, 20, 30, 255>>
BlockImage == ImageOf(6, 6, [i \in 1..144 |-> blockPixel(pixelOf(i))[channelOf(i) + 1]])

Files == {NoFile, FileOf(SmallImage), FileOf(BlockImage)}

InitPipeline ==
    /\ width = 0 /\ height = 0 /\ data = << >>
    /\ visited = << >> /\ contours = << >>
    /\ sx = 0 /\ sy = 0
    /\ pc = "idle"
    /\ startX = 0 /\ startY = 0 /\ tx = 0 /\ ty = 0 /\ dir = 7
    /\ firstPoint = TRUE /\ iter = 0 /\ contour = << >>
    /\ seeds = << >> /\ walks = << >>
    /\ settings = DefaultSettings
    /\ regions = NotCalled
    /\ ContourIdle
    /\ EmitIdle
    /\ PipeIdle

NextPipeline ==
    \/ \E r \in Runs, file \in Files, overrides \in Overrides : Call(r, file, overrides)
    \/ \E r \in Runs : LoadFails(r)
    \/ \E r \in Runs : Loaded(r)
    \/ Grayscale
    \/ Blur
    \/ Posterize
    \/ Edges
    \/ Invert
    \/ Threshold
    \/ FindContoursBegin
    \/ FindContours
    \/ ContoursStage
    \/ GenerateSVG
    \/ Settle

SpecPipeline == InitPipeline /\ [][NextPipeline]_vars
----------------------------------------------------------------------------
(* Specification: processContours on a contour and on the same contour     *)
(* with its first point appended again, for every contour of 1..MaxLen     *)
(* points of the grid, with minRegionArea 0 and smoothing 0 or 0.5         *)

ClosedPairs == {<<c, Append(c, c[1])>> : c \in GridContours \ {<< >>}}

InitArea ==
    /\ width = MaxX + 1
    /\ height = MaxY + 1
    /\ data = [i \in 0..(width * height - 1) |-> 0]
    /\ visited = [i \in 0..(width * height - 1) |-> 0]
    /\ contours \in ClosedPairs
    /\ sx = scanFirst /\ sy = height - 1
    /\ pc = "found"
    /\ startX = 0 /\ startY = 0 /\ tx = 0 /\ ty = 0 /\ dir = 7
    /\ firstPoint = TRUE /\ iter = 0 /\ contour = << >>
    /\ seeds = << >> /\ walks = << >>
    /\ settings \in {[DefaultSettings EXCEPT !.minRegionArea = 0, !.smoothing10 = s] : s \in {0, 5}}
    /\ regions = NotCalled
    /\ ContourIdle
    /\ EmitIdle
    /\ PipeIdle

SpecArea == InitArea /\ [][ProcessContours]_vars

----------------------------------------------------------------------------
(* Specification: posterize called up to MaxApplications times on a        *)
(* one-pixel buffer, for every red value 0..255 and a sample of levels     *)

\* imageData = this.posterize(imageData, this.settings.posterize)
PosterizeCall ==
    /\ pc = "pixels" /\ current # 0
    /\ Len(after[current]) < MaxApplications
    /\ stageDone(posterize(heap[imageData], settings.posterize),
                 Called("posterize", settings.posterize))
    /\ UNCHANGED <<traceVars, postVars, contourVars, emitVars, appVars,
                   imageData, steps, reads, phase, current, files, established, supplied, result>>

PosterizeLevels == {1, 2, 3, 4, 8, 16, 64, 255, 256, 300}

\* one pixel of every red value, with other values in green and blue
SpreadPixels == {<<v, (v + 85) % 256, 255 - v, 200>> : v \in 0..255}

InitPosterize ==
    /\ settings \in {[DefaultSettings EXCEPT !.posterize = levels] : levels \in PosterizeLevels}
    /\ \E p \in SpreadPixels : PixelsEntry(ImageOf(1, 1, p))

SpecPosterize == InitPosterize /\ [][PosterizeCall]_vars

----------------------------------------------------------------------------
(* Specification: applyBlur with radius 1 or 2 called up to                *)
(* MaxApplications times on buffers of several sizes, some of them too     *)
(* small to hold a whole window                                            *)

\* imageData = this.applyBlur(imageData, this.settings.blur)
BlurCall ==
    /\ pc = "pixels" /\ current # 0
    /\ Len(after[current]) < MaxApplications
    /\ stageDone(applyBlur(heap[imageData], settings.blur),
                 Called("applyBlur", settings.blur))
    /\ UNCHANGED <<traceVars, postVars, contourVars, emitVars, appVars,
                   imageData, steps, reads, phase, current, files, established, supplied, result>>

BlurSizes == {<<2, 2>>, <<3, 3>>, <<4, 3>>, <<5, 4>>, <<5, 5>>, <<6, 5>>}
BlurRadii == {1, 2}

\* byte i of a buffer is (a * i + b) % 256
PatternImage(w, h, a, b) == ImageOf(w, h, [i \in 1..(4 * w * h) |-> (a * i + b) % 256])

BlurImages ==
    {PatternImage(s[1], s[2], a, b) : s \in BlurSizes, a \in {1, 37, 101, 255}, b \in {0, 50, 128}}

InitBlur ==
    /\ settings \in {[DefaultSettings EXCEPT !.blur = radius] : radius \in BlurRadii}
    /\ \E img \in BlurImages : PixelsEntry(img)

SpecBlur == InitBlur /\ [][BlurCall]_vars

----------------------------------------------------------------------------
(* Specification: up to MaxRuns calls of processImage on one converter,    *)
(* each with a 3 x 3 or a 6 x 6 image and settings that differ in          *)
(* edgeRadius only                                                         *)

EdgeRadii == {1, 2, 5}
RadiusOverrides == {[UISettings(50, 1, 0, TRUE, TRUE) EXCEPT !.edgeRadius = k] : k \in EdgeRadii}
\* a 6 x 6 image: a light 3 x 3 corner on a dark ground
cornerPixel(p) ==
    IF (p - 1) % 6 >= 3 /\ (p - 1) \div 6 >= 3
    THEN <<250, 200, 40, 255>> ELSE <<10, 20, 30, 255>>
CornerImage == ImageOf(6, 6, [i \in 1..144 |-> cornerPixel(pixelOf(i))[channelOf(i) + 1]])

RadiusFiles == {FileOf(SmallImage), FileOf(CornerImage)}

NextRadius ==
    \/ \E r \in Runs, file \in RadiusFiles, overrides \in RadiusOverrides : Call(r, file, overrides)
    \/ \E r \in Runs : Loaded(r)
    \/ Grayscale
    \/ Blur
    \/ Posterize
    \/ Edges
    \/ Invert
    \/ Threshold
    \/ FindContoursBegin
    \/ FindContours
    \/ ContoursStage
    \/ GenerateSVG
    \/ Settle

SpecRadius == InitPipeline /\ [][NextRadius]_vars


----------------------------------------------------------------------------
(* ImageConverterUI.  The panel owns one ImageConverter; its handlers run  *)
(* as tasks of the event loop, one at a time, and the continuation of an   *)
(* await runs before the next task.  A handler takes no time: the clock    *)
(* advances between tasks only, and a timer that is due runs before any    *)
(* later event is handled.                                                 *)

\* clearTimeout(id): the task of that id, if still pending, is removed
clearTimeout_noop(tasks, id) == tasks
clearTimeout(tasks, id) == {t \in tasks : t.id # id}

\* setTimeout(callback, delay): a task due delay after now
setTimeout(tasks, id, delay) == tasks \cup {[id |-> id, due |-> now + delay]}

\* the delay of onSettingsChange, 300 ms
DebounceTicks == 3

\* no synchronous code is running and no continuation is waiting to run
quiet ==
    /\ current = 0
    /\ \A r \in awaiting : phase[r] \in {"awaiting", "running"}

\* the values of the controls that getSettings reads
UIControls == {UISettings(50, 1, 0, TRUE, TRUE), UISettings(20, 0, 0, FALSE, FALSE)}

\* the files a user can drop: one that does not decode and a 3 x 3 image
UIFiles == {NoFile, FileOf(SmallImage)}

\* ImageConverterUI.processImage past its guard, up to the await:
\* const settings = this.getSettings();
\* const result = await this.converter.processImage(this.currentImage, settings)
convert(image) ==
    \E r \in Runs, controls \in UIControls :
        /\ processImage(r, image, controls)
        /\ awaiting' = awaiting \cup {r}

\* loadImage(file), from the drop zone or the file input, which are
\* displayed while no image is loaded: this.currentImage = file;
\* await this.processImage()
LoadImage(file) ==
    /\ quiet
    /\ currentImage = << >>
    /\ currentImage' = <<file>>
    /\ convert(file)
    /\ UNCHANGED <<currentResult, timers, settingsTimeout, now, changes, fired, busVars>>

\* click on the process button: processImage(), which returns at once
\* when currentImage is null
ProcessClick ==
    /\ quiet
    /\ currentImage # << >>
    /\ convert(currentImage[1])
    /\ UNCHANGED <<currentImage, currentResult, timers, settingsTimeout, now,
                   changes, fired, busVars>>

\* the continuation of processImage: this.currentResult = result, or the
\* catch block when the promise of the converter rejected
Resume(r) ==
    /\ current = 0
    /\ r \in awaiting
    /\ phase[r] \in {"returned", "rejected"}
    /\ awaiting' = awaiting \ {r}
    /\ currentResult' = IF phase[r] = "returned" THEN <<result[r].value>> ELSE currentResult
    /\ UNCHANGED <<traceVars, postVars, contourVars, emitVars, pipeVars,
                   currentImage, timers, settingsTimeout, now, changes, fired, busVars>>

\* reset(): this.currentImage = null; this.currentResult = null
Reset ==
    /\ quiet
    /\ currentImage' = << >>
    /\ currentResult' = << >>
    /\ UNCHANGED <<traceVars, postVars, contourVars, emitVars, pipeVars,
                   awaiting, timers, settingsTimeout, now, changes, fired, busVars>>

\* onSettingsChange(), bound to the change event of every slider and
\* checkbox: clearTimeout(this.settingsTimeout);
\* this.settingsTimeout = setTimeout(..., 300)
OnSettingsChange ==
    /\ quiet
    /\ \A t \in timers : t.due > now
    /\ Len(changes) < MaxChanges
    /\ timers' = setTimeout(clearTimeout(timers, settingsTimeout), Len(changes) + 1, DebounceTicks)
    /\ settingsTimeout' = Len(changes) + 1
    /\ changes' = Append(changes, now)
    /\ UNCHANGED <<traceVars, postVars, contourVars, emitVars, pipeVars,
                   currentImage, currentResult, awaiting, now, fired, busVars>>

\* the callback of the timer: if (this.currentImage) this.processImage()
TimerFires ==
    /\ quiet
    /\ \E t \in timers :
        /\ t.due <= now
        /\ timers' = timers \ {t}
        /\ IF currentImage # << >>
           THEN /\ convert(currentImage[1])
                /\ fired' = Append(fired, [id |-> t.id, at |-> now, image |-> TRUE,
                                           runs |-> awaiting' \ awaiting])
           ELSE /\ fired' = Append(fired, [id |-> t.id, at |-> now, image |-> FALSE, runs |-> {}])
                /\ UNCHANGED <<traceVars, postVars, contourVars, emitVars, pipeVars, awaiting>>
    /\ UNCHANGED <<currentImage, currentResult, settingsTimeout, now, changes, busVars>>

\* 100 ms pass with no task running; the clock matters while a timer is
\* pending only
Tick ==
    /\ quiet
    /\ now < MaxTime
    /\ timers # {}
    /\ \A t \in timers : t.due > now
    /\ now' = now + 1
    /\ UNCHANGED <<traceVars, postVars, contourVars, emitVars, pipeVars,
                   currentImage, currentResult, awaiting, timers, settingsTimeout,
                   changes, fired, busVars>>

\* img.onload and img.onerror are tasks as well
ImageLoaded(r) == quiet /\ Loaded(r)
ImageFails(r) == quiet /\ LoadFails(r)

\* the panel without its sliders: load, process, reset
NextPanel ==
    \/ \E file \in UIFiles : LoadImage(file)
    \/ ProcessClick
    \/ \E r \in Runs : Resume(r)
    \/ Reset
    \/ \E r \in Runs : ImageLoaded(r)
    \/ \E r \in Runs : ImageFails(r)
    \/ Grayscale
    \/ Blur
    \/ Posterize
    \/ Edges
    \/ Invert
    \/ Threshold
    \/ FindContoursBegin
    \/ FindContours
    \/ ContoursStage
    \/ GenerateSVG
    \/ Settle

SpecPanel == InitPipeline /\ [][NextPanel]_vars

\* the sliders and the timer of onSettingsChange, with up to MaxChanges
\* change events in MaxTime ticks
NextDebounce ==
    \/ \E file \in UIFiles : LoadImage(file)
    \/ \E r \in Runs : Resume(r)
    \/ Reset
    \/ OnSettingsChange
    \/ TimerFires
    \/ Tick
    \/ \E r \in Runs : ImageLoaded(r)
    \/ \E r \in Runs : ImageFails(r)
    \/ Grayscale
    \/ Blur
    \/ Posterize
    \/ Edges
    \/ Invert
    \/ Threshold
    \/ FindContoursBegin
    \/ FindContours
    \/ ContoursStage
    \/ GenerateSVG
    \/ Settle

SpecDebounce == InitPipeline /\ [][NextDebounce]_vars

----------------------------------------------------------------------------
(* EventEmitter and Store.  _events maps an event to its Set of callbacks, *)
(* kept as the sequence of their identities in insertion order; identities *)
(* are given in the order of registration, so a Set is always increasing.  *)
(* emit and setState are run one callback or one key a step, with the      *)
(* calls in progress on a stack, so that a callback can call back into     *)
(* the emitter.                                                            *)

\* on(event, callback): this._events.get(event).add(callback), the Set
\* being created when the event has none
on(events, event, id) ==
    [e \in DOMAIN events \cup {event} |->
        IF e = event
        THEN Append(IF e \in DOMAIN events THEN events[e] ELSE << >>, id)
        ELSE events[e]]

\* off(event, callback): this._events.get(event).delete(callback)
off_missing(events, event, id) == events
off(events, event, id) ==
    IF event \in DOMAIN events
    THEN [events EXCEPT ![event] = SelectSeq(@, LAMBDA c : c # id)]
    ELSE events

\* Set.prototype.forEach: the next callback marked after the one of
\* identity last is the first one still (or newly) in the Set that was
\* inserted after it; 0 when there is none
forEachNext(events, event, last) ==
    IF event \notin DOMAIN events THEN 0
    ELSE LET later == SelectSeq(events[event], LAMBDA c : c > last)
         IN  IF later = << >> THEN 0 ELSE later[1]

\* `change:${key}`
changeEvent(key) == IF key = "a" THEN "change:a" ELSE "change:b"

\* the argument of setState: an object, given by the list of its entries,
\* or a function; the one function used is prev => ({ a: prev.b, b: prev.a })
Object(entries) == [function |-> FALSE, entries |-> entries]
Swap == [function |-> TRUE, entries |-> << >>]

\* typeof updates === 'function' ? updates(prevState) : updates
resolveUpdates(updates, prevState) ==
    IF updates.function
    THEN <<<<"a", prevState.b>>, <<"b", prevState.a>>>>
    ELSE updates.entries

\* Object.entries(updates).forEach(([key, value]) => this._state[key] = value)
RECURSIVE mergeUpdates(_, _, _)
mergeUpdates(state, updates, i) ==
    IF i > Len(updates) THEN state
    ELSE mergeUpdates([state EXCEPT ![updates[i][1]] = updates[i][2]], updates, i + 1)

emitFrame(event, args, call) ==
    [kind |-> "emit", event |-> event, args |-> args, last |-> 0, call |-> call]
setStateFrame(call, updates, prevState) ==
    [kind |-> "setState", call |-> call, updates |-> updates, prevState |-> prevState, k |-> 1]

top == stack[Len(stack)]
logged(kind, listener, event) == [kind |-> kind, listener |-> listener, event |-> event]
busFrame == UNCHANGED <<traceVars, postVars, contourVars, emitVars, pipeVars, uiVars>>

\* what the callbacks of the model do: return, throw, emit their own event
\* again, or call setState({ b: 0 })
Bodies == {"return", "throw", "emit", "setState"}
HandlerUpdates == Object(<<<<"b", 0>>>>)
BusEvents == {"change:a", "change"}
Updates == {Object(<<<<"a", 1>>>>), Object(<<<<"a", 0>>>>), Object(<<<<"a", 1>>, <<"b", 1>>>>), Swap}

\* the entry of setState up to the end of the merge, pushed on the stack s
setStateBegins(s, updates) ==
    LET prevState == _state
        resolved == resolveUpdates(updates, prevState)
    IN  /\ _state' = mergeUpdates(_state, resolved, 1)
        /\ setCalls' = Append(setCalls, [updates |-> resolved, prevState |-> prevState,
                                         emitted |-> << >>, done |-> FALSE])
        /\ stack' = Append(s, setStateFrame(Len(setCalls) + 1, resolved, prevState))

\* emitter.on(event, callback)
On(event, body) ==
    /\ stack = << >> /\ Len(listeners) < MaxListeners
    /\ listeners' = Append(listeners, [event |-> event, once |-> FALSE, body |-> body])
    /\ _events' = on(_events, event, Len(listeners) + 1)
    /\ log' = Append(log, logged("on", Len(listeners) + 1, event))
    /\ UNCHANGED <<_state, stack, setCalls>>
    /\ busFrame

\* emitter.once(event, callback): the wrapper is what is registered
Once(event, body) ==
    /\ stack = << >> /\ Len(listeners) < MaxListeners
    /\ listeners' = Append(listeners, [event |-> event, once |-> TRUE, body |-> body])
    /\ _events' = on(_events, event, Len(listeners) + 1)
    /\ log' = Append(log, logged("on", Len(listeners) + 1, event))
    /\ UNCHANGED <<_state, stack, setCalls>>
    /\ busFrame

\* the function returned by on or once is called: () => this.off(event, callback)
Unsubscribe(id) ==
    /\ stack = << >> /\ Len(log) < MaxLog
    /\ id \in 1..Len(listeners)
    /\ _events' = off(_events, listeners[id].event, id)
    /\ log' = Append(log, logged("off", id, listeners[id].event))
    /\ UNCHANGED <<_state, listeners, stack, setCalls>>
    /\ busFrame

\* emitter.emit(event) called from outside a callback
Emit(event) ==
    /\ stack = << >> /\ Len(log) < MaxLog
    /\ stack' = <<emitFrame(event, << >>, 0)>>
    /\ log' = Append(log, logged("emit", 0, event))
    /\ UNCHANGED <<_events, _state, listeners, setCalls>>
    /\ busFrame

\* store.setState(updates) called from outside a callback
SetState(updates) ==
    /\ stack = << >> /\ Len(log) < MaxLog
    /\ setStateBegins(stack, updates)
    /\ UNCHANGED <<_events, listeners, log>>
    /\ busFrame

\* one turn of the forEach of emit: callback.apply(this, args) inside the
\* try; the wrapper of once removes itself before it calls the callback
Deliver ==
    /\ stack # << >> /\ top.kind = "emit"
    /\ LET id == forEachNext(_events, top.event, top.last)
           marked == [stack EXCEPT ![Len(stack)].last = id]
       IN  /\ id # 0
           /\ _events' = IF listeners[id].once THEN off(_events, top.event, id) ELSE _events
           /\ CASE listeners[id].body \in {"return", "throw"} ->
                    /\ stack' = marked
                    /\ log' = Append(log, logged("call", id, top.event))
                    /\ UNCHANGED <<_state, setCalls>>
                [] listeners[id].body = "emit" ->
                    /\ Len(stack) < MaxDepth
                    /\ stack' = Append(marked, emitFrame(top.event, top.args, 0))
                    /\ log' = log \o <<logged("call", id, top.event), logged("emit", id, top.event)>>
                    /\ UNCHANGED <<_state, setCalls>>
                [] listeners[id].body = "setState" ->
                    /\ Len(stack) < MaxDepth
                    /\ setStateBegins(marked, HandlerUpdates)
                    /\ log' = Append(log, logged("call", id, top.event))
    /\ UNCHANGED listeners
    /\ busFrame

\* the forEach of emit is over: emit returns
EmitReturns ==
    /\ stack # << >> /\ top.kind = "emit"
    /\ forEachNext(_events, top.event, top.last) = 0
    /\ stack' = SubSeq(stack, 1, Len(stack) - 1)
    /\ UNCHANGED <<_events, _state, listeners, log, setCalls>>
    /\ busFrame

\* one turn of Object.keys(updates).forEach: if (this._state[key] !==
\* prevState[key]) this.emit(`change:${key}`, this._state[key], prevState[key])
NotifyKey ==
    /\ stack # << >> /\ top.kind = "setState" /\ top.k <= Len(top.updates)
    /\ LET key == top.updates[top.k][1]
           stepped == [stack EXCEPT ![Len(stack)].k = top.k + 1]
           args == <<_state[key], top.prevState[key]>>
       IN  IF _state[key] # top.prevState[key]
           THEN /\ stack' = Append(stepped, emitFrame(changeEvent(key), args, top.call))
                /\ setCalls' = [setCalls EXCEPT ![top.call].emitted =
                                    Append(@, [event |-> changeEvent(key), args |-> args])]
                /\ log' = Append(log, logged("emit", 0, changeEvent(key)))
           ELSE /\ stack' = stepped
                /\ UNCHANGED <<setCalls, log>>
    /\ UNCHANGED <<_events, _state, listeners>>
    /\ busFrame

\* this.emit('change', this._state, prevState)
NotifyChange ==
    /\ stack # << >> /\ top.kind = "setState" /\ top.k = Len(top.updates) + 1
    /\ stack' = Append([stack EXCEPT ![Len(stack)].k = top.k + 1],
                       emitFrame("change", <<top.prevState>>, top.call))
    /\ setCalls' = [setCalls EXCEPT ![top.call].emitted =
                        Append(@, [event |-> "change", args |-> <<top.prevState>>])]
    /\ log' = Append(log, logged("emit", 0, "change"))
    /\ UNCHANGED <<_events, _state, listeners>>
    /\ busFrame

\* setState returns
SetStateReturns ==
    /\ stack # << >> /\ top.kind = "setState" /\ top.k = Len(top.updates) + 2
    /\ stack' = SubSeq(stack, 1, Len(stack) - 1)
    /\ setCalls' = [setCalls EXCEPT ![top.call].done = TRUE]
    /\ UNCHANGED <<_events, _state, listeners, log>>
    /\ busFrame

NextStore ==
    \/ \E event \in BusEvents, body \in Bodies : On(event, body)
    \/ \E event \in BusEvents, body \in Bodies : Once(event, body)
    \/ \E id \in 1..MaxListeners : Unsubscribe(id)
    \/ \E event \in BusEvents : Emit(event)
    \/ \E updates \in Updates : SetState(updates)
    \/ Deliver
    \/ EmitReturns
    \/ NotifyKey
    \/ NotifyChange
    \/ SetStateReturns

SpecStore == InitPipeline /\ [][NextStore]_vars
----------------------------------------------------------------------------
(* Claims about the contour tracer *)

PointSet(c) == {c[k] : k \in 1..Len(c)}

PixelIndices == 0..(width * height - 1)
xOf(idx) == idx % width
yOf(idx) == idx \div width

isWhite(x, y) == getPixel(x, y) > 127

\* a white pixel whose four 4-connected neighbours are all white
isInterior(x, y) == isWhite(x, y) /\ ~hasBlackNeighbor(x, y)

\* C3: no pixel coordinate belongs to two distinct contours returned by
\* findContours (hence no boundary is returned twice).
C3_ContoursDisjoint ==
    \A i \in 1..Len(contours) : \A j \in 1..Len(contours) :
        i # j => PointSet(contours[i]) \cap PointSet(contours[j]) = {}

\* C4: an interior white pixel (all four 4-neighbours white) is never marked
\* visited and never appears as a point of a traced walk.
C4_InteriorUntouched ==
    \A idx \in PixelIndices :
        isInterior(xOf(idx), yOf(idx)) =>
            /\ visited[idx] = 0
            /\ Pt(xOf(idx), yOf(idx)) \notin PointSet(contour)
            /\ \A k \in 1..Len(walks) : Pt(xOf(idx), yOf(idx)) \notin PointSet(walks[k])

\* C5: when the scan is over, every white pixel with a black 4-neighbour
\* (out of bounds counts as black), first/last row and column included, was
\* used as a trace seed unless a walk had already visited it.
C5_BoundaryPixelsSeeded ==
    pc = "found" =>
        \A idx \in PixelIndices :
            (isWhite(xOf(idx), yOf(idx)) /\ hasBlackNeighbor(xOf(idx), yOf(idx))) =>
                \/ Pt(xOf(idx), yOf(idx)) \in PointSet(seeds)
                \/ visited[idx] = 1

\* the walk that just ended stopped for one of the three reasons of the code
StopReason ==
    \/ whiteSteps(tx, ty, dir) = {}
    \/ (tx = startX /\ ty = startY /\ iter >= 2)
    \/ iter = maxIter

C6_Bounded ==
    /\ iter <= maxIter
    /\ Len(contour) <= width * height
    /\ \A k \in 1..Len(walks) : Len(walks[k]) <= width * height
    /\ \A k \in 1..Len(contours) : Len(contours[k]) <= width * height
    /\ pc = "traced" => StopReason

\* C6: every traceContour walk terminates: each iteration either ends the
\* walk (seed reached again, no white neighbour, cap reached) or increases
\* iter, which never exceeds width*height; so every contour has at most
\* width*height points.
C6_WalkTerminates ==
    /\ []C6_Bounded
    /\ [][pc = "trace" => (pc' = "traced" \/ (pc' = "trace" /\ iter' = iter + 1))]_vars

\* a walk that never came back to its seed and was cut by the iteration cap
C6_Witness ==
    /\ pc = "traced"
    /\ iter = maxIter
    /\ ~(tx = startX /\ ty = startY)
    /\ whiteSteps(tx, ty, dir) # {}
    /\ Len(contour) = width * height

----------------------------------------------------------------------------
(* Claims about the square scenario *)

\* C1: for the 10x10 white square strictly inside the black 30x30 image,
\* findContours returns exactly one contour.
C1_ExactlyOneContour ==
    pc \in {"found", "processed", "failed"} => Len(contours) = 1

\* findContours has returned: several walks were traced, one contour kept
C1_Witness ==
    /\ pc = "found"
    /\ Len(walks) > 1
    /\ Len(contours) = 1

\* C2: the shoelace area of the square's contour lies in [64,100] (twice the
\* area in [128,200]); processContours returns, keeps the region when
\* minRegionArea = 50 and drops it when minRegionArea = 200.
C2_SquareArea ==
    pc \in {"processed", "failed"} =>
        /\ pc = "processed"
        /\ Len(contours) >= 1
        /\ 2 * 64 <= area2Of(contours[1]) /\ area2Of(contours[1]) <= 2 * 100
        /\ settings.minRegionArea = 50 =>
              /\ Len(regions.value) = 1
              /\ regions.value[1].area2 = area2Of(contours[1])
        /\ settings.minRegionArea = 200 => regions.value = << >>

\* the square's region survived the filter of minRegionArea = 50
C2_Witness ==
    /\ pc = "processed"
    /\ settings.minRegionArea = 50
    /\ Len(regions.value) = 1
    /\ regions.value[1].area2 = 2 * 81

----------------------------------------------------------------------------
(* Claims about smoothContour and simplifyContour *)

\* sum of coordinate coord over the 2w+1 points at indices (i+j) mod n,
\* j in -w..w, i 0-based
RECURSIVE cyclicSum(_, _, _, _, _)
cyclicSum(ps, i, j, w, coord) ==
    IF j > w THEN 0
    ELSE ps[((i + j) % Len(ps)) + 1][coord] + cyclicSum(ps, i, j + 1, w, coord)

cyclicMean(ps, i, w) ==
    Pt(RoundDiv(cyclicSum(ps, i, -w, w, "x"), 2 * w + 1),
       RoundDiv(cyclicSum(ps, i, -w, w, "y"), 2 * w + 1))

\* C7: for a contour of n >= 3 points and a factor > 0, smoothContour returns
\* without error n points, point i the rounded mean of the 2w+1 points at
\* indices (i+j) mod n, w = max(1, floor(3*factor)), also when w > n.
C7_SmoothCyclicMean ==
    (smoothResult # NotCalled /\ Len(pts) >= 3) =>
        /\ smoothResult.threw = ""
        /\ Len(smoothResult.value) = Len(pts)
        /\ \A i \in 1..Len(smoothResult.value) :
              smoothResult.value[i] = cyclicMean(pts, i - 1, smoothWindow(factorTenths))

\* C8: the first and the last point of simplifyContour's output are the
\* first and the last point of a non-empty input, at every tolerance >= 0.
C8_EndpointsPreserved ==
    pts # << >> =>
        \A k \in 1..Len(simplifiedAt) :
            /\ simplifiedAt[k] # << >>
            /\ simplifiedAt[k][1] = pts[1]
            /\ simplifiedAt[k][Len(simplifiedAt[k])] = pts[Len(pts)]

\* a simplification that split the contour and dropped some of its points
C8_Witness ==
    \E k \in 1..Len(simplifiedAt) :
        /\ Len(simplifiedAt[k]) > 2
        /\ Len(simplifiedAt[k]) < Len(pts)
        /\ simplifiedAt[k][1] = pts[1]
        /\ simplifiedAt[k][Len(simplifiedAt[k])] = pts[Len(pts)]

\* C9: for tolerances t1 <= t2 the point counts satisfy
\* |simplify(c,t2)| <= |simplify(c,t1)| <= |c|.
C9_Monotone ==
    \A i \in 1..Len(simplifiedAt) : \A j \in i..Len(simplifiedAt) :
        /\ Len(simplifiedAt[j]) <= Len(simplifiedAt[i])
        /\ Len(simplifiedAt[i]) <= Len(pts)

\* all tolerances applied, the count strictly falling from the input to the
\* smallest and from the smallest to the largest tolerance
C9_Witness ==
    /\ tolIdx = Len(TolHalves)
    /\ Len(simplifiedAt[1]) < Len(pts)
    /\ Len(simplifiedAt[Len(TolHalves)]) < Len(simplifiedAt[1])

\* C10: a contour of 3 or more points whose inner points lie on the segment
\* from its first to its last point is simplified to [first, last] at every
\* tolerance >= 0, tolerance 0 included.
C10_CollinearCollapses ==
    \A k \in 1..Len(simplifiedAt) :
        simplifiedAt[k] = <<pts[1], pts[Len(pts)]>>

----------------------------------------------------------------------------
(* Claims about processContours and generateSVG *)

\* the positions of the contours, and of the regions, of twice the area a2
contoursOfArea2(cs, a2) == {k \in 1..Len(cs) : area2Of(cs[k]) = a2}

regionsOfArea2(rs, a2) == {k \in 1..Len(rs) : rs[k].area2 = a2}

\* C11: processContours keeps a region iff its area >= minRegionArea: for
\* every area, the output holds as many regions of that area as there are
\* contours of that area when the area is >= minRegionArea (equality
\* included), and none when it is below.
C11_InclusiveFilter ==
    pc \in {"processed", "failed", "emitted"} =>
        /\ regions.threw = ""
        /\ \A a2 \in 0..(2 * MaxSideW * MaxSideH) :
              Cardinality(regionsOfArea2(regions.value, a2))
                = IF a2 >= 2 * settings.minRegionArea
                  THEN Cardinality(contoursOfArea2(contours, a2))
                  ELSE 0
        /\ \A k \in 1..Len(regions.value) :
              regions.value[k].area2 \in 0..(2 * MaxSideW * MaxSideH)

\* a contour of area exactly minRegionArea was kept and one of area
\* minRegionArea - 1 was dropped
C11_Witness ==
    /\ pc = "processed"
    /\ contoursOfArea2(contours, 2 * settings.minRegionArea) # {}
    /\ regionsOfArea2(regions.value, 2 * settings.minRegionArea) # {}
    /\ contoursOfArea2(contours, 2 * settings.minRegionArea - 2) # {}
    /\ regionsOfArea2(regions.value, 2 * settings.minRegionArea - 2) = {}

\* out lists some of the regions of mapped, by non-increasing area, regions
\* of equal area in the order of mapped
StableDescending(out, mapped) ==
    \E f \in [1..Len(out) -> 1..Len(mapped)] :
        /\ \A i \in 1..Len(out) : out[i] = mapped[f[i]]
        /\ \A i \in 1..Len(out) : \A j \in (i + 1)..Len(out) :
              /\ out[i].area2 >= out[j].area2
              /\ out[i].area2 = out[j].area2 => f[i] < f[j]

\* C12: the regions returned by processContours are ordered by
\* non-increasing area, and regions of equal area keep the order in which
\* their contours were found.
C12_StableDescending ==
    pc \in {"processed", "emitted"} =>
        StableDescending(regions.value,
                         [k \in 1..Len(contours) |-> regionOf(contours[k], settings)])

\* the sort moved a larger region in front of two different regions of equal area
C12_Witness ==
    /\ pc = "processed"
    /\ Len(regions.value) = 3
    /\ area2Of(contours[1]) = area2Of(contours[2])
    /\ area2Of(contours[3]) > area2Of(contours[1])
    /\ regions.value[2] # regions.value[3]
    /\ regions.value[2].area2 = regions.value[3].area2

\* the value of the attribute name of element el
attrOf(el, name) ==
    el.attrs[CHOOSE i \in 1..Len(el.attrs) : el.attrs[i][1] = name][2]

\* 'M x0,y0' followed by ' L xk,yk' for the points 2..n, in order
RECURSIVE commandsUpTo(_, _)
commandsUpTo(points, n) ==
    IF n = 1
    THEN "M " \o ToString(points[1].x) \o "," \o ToString(points[1].y)
    ELSE commandsUpTo(points, n - 1)
           \o " L " \o ToString(points[n].x) \o "," \o ToString(points[n].y)

\* the path elements of the document
pathsOf(doc) == doc.children[1].children

\* C18: generateSVG emits exactly one path per region, in region-list order;
\* the path of the region at 0-based position i has id and data-index i and
\* its d is 'M x0,y0', then ' L xk,yk' for each further point in order, then
\* ' Z', the coordinates being those of the region's points.
C18_OnePathPerRegion ==
    pc = "emitted" =>
        /\ svg.tag = "svg" /\ Len(svg.children) = 1 /\ svg.children[1].tag = "g"
        /\ Len(pathsOf(svg)) = Len(regions.value)
        /\ \A k \in 1..Len(regions.value) :
              /\ pathsOf(svg)[k].tag = "path"
              /\ attrOf(pathsOf(svg)[k], "id") = ToString(k - 1)
              /\ attrOf(pathsOf(svg)[k], "data-index") = ToString(k - 1)
              /\ Len(regions.value[k].points) >= 1 =>
                    attrOf(pathsOf(svg)[k], "d")
                      = commandsUpTo(regions.value[k].points,
                                     Len(regions.value[k].points)) \o " Z"

\* a document of three paths, one of them with more than one L command
C18_Witness ==
    /\ pc = "emitted"
    /\ Len(pathsOf(svg)) = 3
    /\ \E k \in 1..3 : Len(regions.value[k].points) >= 4
    /\ \E k \in 1..3 : regions.value[k].points # regions.value[1].points

\* every pixel of the image is black
allBlack == \A i \in 0..(width * height - 1) : data[i] <= 127

\* C13: on an image whose pixels are all black (<= 127), findContours traces
\* nothing and returns an empty list, processContours returns an empty
\* region list, generateSVG returns a document without path element, and
\* nothing throws.
C13_AllBlackEmpty ==
    allBlack =>
        /\ pc \notin {"trace", "traced", "failed"}
        /\ seeds = << >> /\ contours = << >>
        /\ pc \in {"processed", "emitted"} => regions = Returned(<< >>)
        /\ pc = "emitted" =>
              /\ svg.tag = "svg"
              /\ svg.children[1].tag = "g"
              /\ pathsOf(svg) = << >>

\* the document of an all-black image that is not all zero
C13_Witness ==
    /\ allBlack
    /\ \E i \in 0..(width * height - 1) : data[i] = 127
    /\ \E i \in 0..(width * height - 1) : data[i] = 0
    /\ width = MaxEmitW /\ height = MaxEmitH
    /\ pc = "emitted"
    /\ svg # NoDocument

----------------------------------------------------------------------------
(* Claims on the pixel stages *)

colourPositions(img) == {i \in 1..Len(img.data) : channelOf(i) # 3}
alphaPositions(img) == {i \in 1..Len(img.data) : channelOf(i) = 3}

\* C19: toGrayscale is idempotent: the buffer after the second call (and any
\* later one) equals the buffer after the first, with the rounding of the
\* byte array, and no call changes an alpha value.
C19_GrayscaleIdempotent ==
    \A r \in Runs :
        (\A k \in 1..Len(calls[r]) : calls[r][k].op = "toGrayscale") =>
            /\ \A k \in 2..Len(after[r]) : after[r][k] = after[r][1]
            /\ \A k \in 1..Len(after[r]) :
                   \A i \in alphaPositions(after[r][k]) :
                       after[r][k].data[i] = files[r].data[i]

\* toGrayscale has run twice on a buffer that its first call changed
C19_Witness ==
    /\ Len(calls[1]) = 2
    /\ \A k \in 1..2 : calls[1][k].op = "toGrayscale"
    /\ after[1][1].data # files[1].data
    /\ after[1][2] = after[1][1]

\* C20: after threshold(level), level in 0..100, every R, G and B value is
\* 0 or 255 and the three colour channels of each pixel are equal.
C20_ThresholdBinary ==
    \A r \in Runs : \A k \in 1..Len(calls[r]) :
        (calls[r][k].op = "threshold" /\ calls[r][k].arg \in Levels) =>
            \A i \in colourPositions(after[r][k]) :
                /\ after[r][k].data[i] \in {0, 255}
                /\ after[r][k].data[i] = after[r][k].data[redAt(i)]

\* threshold has run on a buffer with a red value strictly between 0 and 255,
\* and has produced both a black and a white pixel
C20_Witness ==
    /\ Len(calls[1]) >= 1
    /\ calls[1][1].op = "threshold"
    /\ files[1].data[1] \notin {0, 255}
    /\ \E i, j \in colourPositions(after[1][1]) :
           after[1][1].data[i] = 0 /\ after[1][1].data[j] = 255

----------------------------------------------------------------------------
(* Claims on processImage *)

\* the value of this.settings[key] that run r read at its stage
readOf(r, key) == reads[r][CHOOSE i \in 1..Len(reads[r]) : reads[r][i][1] = key][2]

stepNames(s) == {s[i].name : i \in 1..Len(s)}

\* C14: a run whose file does not decode never resumes: no stage is invoked
\* and no setting read for it, no step is pushed, and once loadImage has
\* rejected the promise of the run is rejected with the error of loadImage,
\* so no steps, regions or document reach the caller.
C14_DecodeFailureRejects ==
    \A r \in Runs :
        (phase[r] # "idle" /\ ~files[r].readable) =>
            /\ phase[r] \in {"awaiting", "rejected"}
            /\ calls[r] = << >> /\ reads[r] = << >>
            /\ steps[r] = << >> /\ after[r] = << >>
            /\ result[r].threw = (IF phase[r] = "rejected" THEN "error event" ELSE "pending")

\* loadImage has rejected for one run, and another run on the same converter
\* has returned its steps
C14_Witness ==
    \E r, q \in Runs :
        /\ phase[r] = "rejected" /\ ~files[r].readable
        /\ result[r].threw = "error event"
        /\ phase[q] = "returned" /\ Len(result[q].value.steps) >= 3

\* C15: every setting that a stage of a run reads has the value established
\* when that run was called, whatever calls were made while it was awaiting.
C15_RunUsesOwnSettings ==
    \A r \in Runs : \A i \in 1..Len(reads[r]) :
        reads[r][i][2] = established[r][reads[r][i][1]]

StageOrder == <<"Grayscale", "Blur", "Posterize", "Edges", "Invert", "Threshold", "Contours">>
orderOf(name) == CHOOSE k \in 1..Len(StageOrder) : StageOrder[k] = name

\* C16: the steps of a returned run are names of StageOrder in increasing
\* order; Edges, Threshold and Contours are among them, Grayscale iff the
\* run read grayscale as true, Blur iff it read blur > 0, Posterize iff it
\* read posterize > 0, Invert iff it read invert as true; applyBlur and
\* posterize are never invoked with an argument <= 0.
C16_StepsInOrder ==
    /\ \A r \in Runs : \A k \in 1..Len(calls[r]) :
           calls[r][k].op \in {"applyBlur", "posterize"} => calls[r][k].arg > 0
    /\ \A r \in Runs :
           phase[r] = "returned" =>
               LET s == result[r].value.steps
               IN  /\ \A i \in 1..Len(s) : \E k \in 1..Len(StageOrder) : StageOrder[k] = s[i].name
                   /\ \A i, j \in 1..Len(s) : i < j => orderOf(s[i].name) < orderOf(s[j].name)
                   /\ {"Edges", "Threshold", "Contours"} \subseteq stepNames(s)
                   /\ "Grayscale" \in stepNames(s) <=> readOf(r, "grayscale")
                   /\ "Blur" \in stepNames(s) <=> readOf(r, "blur") > 0
                   /\ "Posterize" \in stepNames(s) <=> readOf(r, "posterize") > 0
                   /\ "Invert" \in stepNames(s) <=> readOf(r, "invert")

\* one run has returned six steps, and another has returned without Blur,
\* Posterize and Invert, having read a negative blur and a negative posterize
C16_Witness ==
    \E r, q \in Runs :
        /\ phase[r] = "returned" /\ Len(result[r].value.steps) = 6
        /\ phase[q] = "returned"
        /\ readOf(q, "blur") < 0 /\ readOf(q, "posterize") < 0
        /\ stepNames(result[q].value.steps) \cap {"Blur", "Posterize", "Invert"} = {}

\* C17: the buffer that a step holds equals the working buffer as it was right
\* after the stage of that step, at every later moment of the run and after it.
C17_SnapshotsFrozen ==
    \A r \in Runs : \A i \in 1..Len(steps[r]) :
        steps[r][i].name # "Contours" => heap[steps[r][i].data] = after[r][i]

\* a returned run of at least four buffer steps whose working buffer was
\* changed by a later stage, the first snapshot still as it was
C17_Witness ==
    \E r \in Runs :
        /\ phase[r] = "returned"
        /\ Len(after[r]) >= 4
        /\ after[r][1] # after[r][Len(after[r])]
        /\ heap[imageData] = after[r][Len(after[r])]
        /\ heap[steps[r][1].data] = after[r][1]
----------------------------------------------------------------------------
(* Claims about the area, the pixel stages and the settings *)

\* C21: the area that processContours computes for a contour equals the
\* area it computes for the same contour with its first point appended
\* again at the end.
C21_ClosingPointKeepsArea ==
    (pc = "processed" /\ Len(contours) = 2 /\ contours[2] = Append(contours[1], contours[1][1])) =>
        /\ Len(regions.value) = 2
        /\ regions.value[1].area2 = regions.value[2].area2
        /\ regions.value[1].area2 = area2Of(contours[1])

\* both contours of a pair enclosing a positive area were processed
C21_Witness ==
    /\ pc = "processed"
    /\ Len(contours) = 2 /\ contours[2] = Append(contours[1], contours[1][1])
    /\ Len(contours[1]) >= 3
    /\ Len(regions.value) = 2
    /\ regions.value[1].area2 > 0

\* the buffer that application k of run r was given
inputOf(r, k) == IF k = 1 THEN files[r].data ELSE after[r][k - 1].data

\* C22: for every levels >= 1 and every channel value v in 0..255,
\* posterize writes a value that differs from v by at most one step
\* (step = 255 / levels); for levels = 4 and v = 130 the value written is
\* 127.5 rounded to a byte, which is 128.
C22_PosterizeWithinStep ==
    \A r \in Runs : \A k \in 1..Len(calls[r]) :
        (calls[r][k].op = "posterize" /\ calls[r][k].arg >= 1) =>
            \A i \in colourPositions(after[r][k]) :
                /\ FCmp(FFromInt(Abs(after[r][k].data[i] - inputOf(r, k)[i])),
                        FDivInts(255, calls[r][k].arg)) <= 0
                /\ (calls[r][k].arg = 4 /\ inputOf(r, k)[i] = 130) =>
                       after[r][k].data[i] = 128

\* posterize with 4 levels has run on a buffer holding the value 130
C22_Witness ==
    /\ Len(calls[1]) >= 1
    /\ calls[1][1].op = "posterize" /\ calls[1][1].arg = 4
    /\ files[1].data[1] = 130
    /\ after[1][1].data[1] = 128

\* C23: every contour returned by findContours has at least 10 points: the
\* contours are exactly the walks of 10 points or more, in the order they
\* were traced, and a shorter walk (a single isolated white pixel included)
\* contributes no contour.
C23_ShortWalksDropped ==
    /\ \A k \in 1..Len(contours) : Len(contours[k]) >= 10
    /\ contours = SelectSeq(walks, LAMBDA w : Len(w) >= 10)

\* findContours has returned after a walk of fewer than 10 points, which
\* it dropped, and a walk of 10 points or more, which it kept
C23_Witness ==
    /\ pc = "found"
    /\ \E k \in 1..Len(walks) : Len(walks[k]) < 10
    /\ \E k \in 1..Len(walks) : Len(walks[k]) >= 10
    /\ Len(contours) >= 1 /\ Len(contours) < Len(walks)

\* the sum of channel c over the (2 * radius + 1)^2 pixels around (x, y) of
\* the buffer d of a w pixels wide image
neighbourhoodSum(d, w, x, y, c, radius) ==
    LET cells == {<<dx, dy>> : dx \in (-radius)..radius, dy \in (-radius)..radius}
        valueAt(cell) == d[((y + cell[2]) * w + (x + cell[1])) * 4 + c + 1]
        sumOver[S \in SUBSET cells] ==
            IF S = {} THEN 0
            ELSE LET cell == CHOOSE q \in S : TRUE
                 IN  valueAt(cell) + sumOver[S \ {cell}]
    IN  sumOver[cells]

\* C24: applyBlur(radius) with radius >= 1 leaves every pixel within radius
\* of an edge of the image and every alpha value unchanged, and sets R, G,
\* B of each other pixel to the mean of its (2 * radius + 1)^2 neighbourhood
\* in the buffer as it was before the call, to the nearest byte.
C24_BlurFromInput ==
    \A r \in Runs : \A k \in 1..Len(calls[r]) :
        (calls[r][k].op = "applyBlur" /\ calls[r][k].arg >= 1) =>
            \A p \in 1..pixelCount(after[r][k]) :
                /\ after[r][k].data[4 * p] = inputOf(r, k)[4 * p]
                /\ IF framed(after[r][k], p, calls[r][k].arg)
                   THEN \A c \in 0..2 :
                          2 * Abs(after[r][k].data[4 * p - 3 + c] * (2 * calls[r][k].arg + 1) ^ 2
                                  - neighbourhoodSum(inputOf(r, k), after[r][k].width,
                                                     xOfPixel(after[r][k], p),
                                                     yOfPixel(after[r][k], p), c,
                                                     calls[r][k].arg))
                            <= (2 * calls[r][k].arg + 1) ^ 2
                   ELSE \A c \in 0..2 :
                          after[r][k].data[4 * p - 3 + c] = inputOf(r, k)[4 * p - 3 + c]

\* applyBlur has run on a buffer with two neighbouring pixels away from the
\* edges, and has changed one of them
C24_Witness ==
    /\ Len(calls[1]) >= 1
    /\ calls[1][1].op = "applyBlur"
    /\ \E p \in 1..(pixelCount(after[1][1]) - 1) :
           /\ framed(after[1][1], p, calls[1][1].arg)
           /\ framed(after[1][1], p + 1, calls[1][1].arg)
           /\ after[1][1].data[4 * p - 3] # files[1].data[4 * p - 3]
    /\ \E p \in 1..pixelCount(after[1][1]) : ~framed(after[1][1], p, calls[1][1].arg)

\* runs r1 and r2 read the same value of every setting but edgeRadius
sameButRadius(r1, r2) ==
    /\ Len(reads[r1]) = Len(reads[r2])
    /\ \A i \in 1..Len(reads[r1]) :
           reads[r1][i][1] # "edgeRadius" => reads[r1][i] = reads[r2][i]

lastSupplied(r, k) ==
    LET qs == {q \in 1..r : k \in DOMAIN supplied[q]}
    IN  IF qs = {} THEN DefaultSettings[k]
        ELSE supplied[CHOOSE q \in qs : \A p \in qs : p <= q][k]

\* C26: the value of each setting read by a run is the value most recently
\* supplied for that key in the call of that run or in an earlier call, or
\* the constructor default if no such call supplied the key.
C26_SettingsPersist ==
    \A r \in Runs : \A i \in 1..Len(reads[r]) :
        reads[r][i][2] = lastSupplied(r, reads[r][i][1])


\* C27: in ImageConverterUI, currentResult is null whenever currentImage is
\* null.
C27_NoImageNoResult == currentImage = << >> => currentResult = << >>

\* change event j is the last of its burst: no later event, or the next one
\* comes 300 ms after it or later
lastOfBurst(j) == j = Len(changes) \/ changes[j + 1] - changes[j] >= DebounceTicks

invocations(w) == {i \in 1..Len(log) : log[i].kind = "call" /\ log[i].listener = w}

\* the unsubscribe function of w was called when no emit of its event had
\* started since w was registered
unsubscribedFirst(w) ==
    \E p \in 1..Len(log) :
        /\ log[p].kind = "off" /\ log[p].listener = w
        /\ \A q \in 1..(p - 1) :
               (log[q].kind = "emit" /\ log[q].event = listeners[w].event) =>
                   \E n \in (q + 1)..(p - 1) : log[n].kind = "on" /\ log[n].listener = w

\* C29: a callback registered with once is invoked at most once, whatever
\* emits follow or are made from inside it, and never when its unsubscribe
\* function was called before the first emit.
C29_OnceAtMostOnce ==
    \A w \in 1..Len(listeners) :
        listeners[w].once =>
            /\ Cardinality(invocations(w)) <= 1
            /\ unsubscribedFirst(w) => invocations(w) = {}

\* a once callback that emits its own event again has been invoked, its
\* event has been emitted by the caller and by itself, and another once callback of
\* the same event was unsubscribed before the first of these emits
C29_Witness ==
    /\ stack = << >>
    /\ \E w \in 1..Len(listeners) :
           /\ listeners[w].once /\ listeners[w].body = "emit"
           /\ Cardinality(invocations(w)) = 1
           /\ Cardinality({i \in 1..Len(log) : log[i].kind = "emit"
                                                /\ log[i].event = listeners[w].event}) >= 2
           /\ \E u \in 1..Len(listeners) :
                  /\ u # w /\ listeners[u].once /\ listeners[u].event = listeners[w].event
                  /\ unsubscribedFirst(u)

\* what the statement of C30 has a call of setState emit
RECURSIVE expectedFrom(_, _, _)
expectedFrom(updates, prevState, i) ==
    IF i > Len(updates) THEN <<[event |-> "change", args |-> <<prevState>>]>>
    ELSE IF updates[i][2] # prevState[updates[i][1]]
         THEN <<[event |-> changeEvent(updates[i][1]),
                 args |-> <<updates[i][2], prevState[updates[i][1]]>>]>>
              \o expectedFrom(updates, prevState, i + 1)
         ELSE expectedFrom(updates, prevState, i + 1)

sameEmission(x, y) == x.event = y.event /\ x.args = y.args

\* C30: a call of setState that has returned has emitted 'change:<key>'
\* with (new value, previous value) for exactly the updated keys whose new
\* value differs from the previous one, in the order of the keys, and then
\* 'change' once.
C30_SetStateEmits ==
    \A c \in 1..Len(setCalls) :
        setCalls[c].done =>
            LET expected == expectedFrom(setCalls[c].updates, setCalls[c].prevState, 1)
            IN  /\ Len(setCalls[c].emitted) = Len(expected)
                /\ \A i \in 1..Len(expected) : sameEmission(setCalls[c].emitted[i], expected[i])
====
